---- MODULE Spec2Model ----
(***************************************************************************)
(* Collection and synchronisation engine of PixCollector.                  *)
(*                                                                         *)
(* The record store (artworks, follows, collection logs, scheduler         *)
(* configs), the remote platform (follow feed, following list, creators'   *)
(* work lists, ranking) and the strategies of services/pixiv_service.py    *)
(* together with the dispatcher of services/huey_service.py.               *)
(*                                                                         *)
(* Dates are counted in units of 365 days, dispatcher time in minutes.     *)
(***************************************************************************)
EXTENDS Integers, Sequences, FiniteSets, TLC

\* ------------------------------------------------------------------ bounds
\* CollectionLog rows created in one behaviour
MaxLogs == 3
\* entries kept in an in-memory artworks_list
MaxList == 4
\* works listed by the remote follow feed
MaxFeedLen == 2
\* creators listed by the remote following list
MaxFollowing == 2
\* dispatcher ticks in one behaviour
MaxTime == 4
\* get_utc_now() during the collection runs
NowDate == 7

\* --------------------------------------------------------- program values
BacktrackYears == 2
NoDate == 0             \* a NULL datetime column / None
NoUrl == 0 - 1          \* next_url is None
NoLog == 0

FollowTypes == {"follow_new_works", "follow_user_artworks"}
RankingTypes == {"daily_rank", "weekly_rank", "monthly_rank", "ranking_works"}
RankModes == {"day", "week", "month"}

\* ------------------------------------------------------- remote catalogue
\* The works the remote platform knows: creator, post date, page count, type.
Catalog ==
  << [user |-> 1, date |-> 7, pages |-> 1, type |-> "manga"],
     [user |-> 1, date |-> 6, pages |-> 1, type |-> "illust"],
     [user |-> 1, date |-> 4, pages |-> 2, type |-> "illust"],
     [user |-> 2, date |-> 4, pages |-> 1, type |-> "illust"],
     [user |-> 2, date |-> 3, pages |-> 1, type |-> "illust"],
     [user |-> 2, date |-> 1, pages |-> 1, type |-> "illust"],
     [user |-> 1, date |-> 2, pages |-> 1, type |-> "illust"] >>

Illusts == 1..Len(Catalog)
Users == {Catalog[i].user : i \in Illusts}
\* The works the follow feed may list: the recent ones of creator 1.
FeedIllusts == {i \in Illusts : Catalog[i].user = 1 /\ Catalog[i].date >= 4}

RECURSIVE SeqOfSet(_)
SeqOfSet(S) ==
  IF S = {} THEN << >>
  ELSE LET m == CHOOSE x \in S : \A y \in S : x <= y
       IN  <<m>> \o SeqOfSet(S \ {m})

Min(a, b) == IF a < b THEN a ELSE b

\* Sequences over S of length at most n.
SeqsUpTo(S, n) == UNION {[1..k -> S] : k \in 0..n}

NoDup(s) == \A i, j \in 1..Len(s) : s[i] = s[j] => i = j

\* ------------------------------------------------------------ record store
\* Artwork rows whose (illust_id, page_index) is the given pair.
RowsFor(rows, illust_id, page_index) ==
  {k \in 1..Len(rows) :
     rows[k].illust_id = illust_id /\ rows[k].page_index = page_index}

\* Result.scalar_one_or_none(): the row, None, or MultipleResultsFound.
get_by_illust_id_and_page(rows, illust_id, page_index) ==
  LET hits == RowsFor(rows, illust_id, page_index)
  IN  [raised |-> Cardinality(hits) > 1,
       id |-> IF Cardinality(hits) = 1 THEN CHOOSE k \in hits : TRUE ELSE 0]

\* BaseRepository.update on an Artwork row, as used for reclassification.
\* Variant: the UPDATE has no WHERE clause and writes every row.
update_collect_type_Mut(rows, id, collect_type) ==
  [k \in 1..Len(rows) |-> [rows[k] EXCEPT !.collect_type = collect_type]]

update_collect_type(rows, id, collect_type) ==
  [k \in 1..Len(rows) |->
     IF k = id THEN [rows[k] EXCEPT !.collect_type = collect_type]
     ELSE rows[k]]

\* Variant: the rows added before the exception are committed.
session_scope_Mut(rows, pending) == rows \o pending

\* session_scope on an exception: rollback, so the store keeps the committed
\* rows and none of the rows added in the session.
session_scope(rows, pending) == rows

\* ArtworkRepository.batch_create: one session for the whole list.  The
\* session factory has autoflush off, so the de-duplication query sees the
\* committed rows only, not the rows added earlier in the same call.  An
\* exception rolls the whole call back.
RECURSIVE batch_create_loop(_, _, _, _)
batch_create_loop(rows, artworks_data, k, pending) ==
  IF k > Len(artworks_data)
  THEN [raised |-> FALSE, rows |-> rows \o pending, created |-> Len(pending)]
  ELSE LET data == artworks_data[k]
           existing == RowsFor(rows, data.illust_id, data.page_index)
       IN  IF Cardinality(existing) > 1
           THEN [raised |-> TRUE, rows |-> session_scope(rows, pending),
                 created |-> 0]
           ELSE IF existing # {}
           THEN batch_create_loop(rows, artworks_data, k + 1, pending)
           ELSE batch_create_loop(rows, artworks_data, k + 1,
                                  Append(pending, data))

batch_create(rows, artworks_data) ==
  batch_create_loop(rows, artworks_data, 1, << >>)

\* CollectionRepository.create_log / update_success / update_error.
create_log(ls, log_type) ==
  Append(ls, [log_type |-> log_type, status |-> "running",
              artworks_count |-> 0])

update_success(ls, log_id, artworks_count) ==
  [ls EXCEPT ![log_id] = [@ EXCEPT !.status = "success",
                                   !.artworks_count = artworks_count]]

\* Variant: the failure leaves the row as it is.
update_error_Mut(ls, log_id) == ls

update_error(ls, log_id) ==
  [ls EXCEPT ![log_id] = [@ EXCEPT !.status = "failed"]]

\* ----------------------------------------------------------- remote facade
\* Items per page of the follow feed, the following list and a creator's
\* listing.
FeedPageSize == 1
FollowingPageSize == 1
UserPageSize == 2

\* One page of a remote list: the items from the offset on and the
\* next_url, which carries the offset of the following page.
PageOf(list, offset, size) ==
  [items |-> SubSeq(list, offset + 1, Min(offset + size, Len(list))),
   next_url |-> IF offset + size < Len(list) THEN offset + size ELSE NoUrl]

\* PixivClient.get_user_illusts: the creator's works of type illust,
\* newest first.
UserWorksByCreator ==
  [user_id \in Users |->
     SelectSeq(SeqOfSet(Illusts),
               LAMBDA i : Catalog[i].user = user_id
                          /\ Catalog[i].type = "illust")]

UserWorks(user_id) == UserWorksByCreator[user_id]

get_user_illusts(user_id, offset) == PageOf(UserWorks(user_id), offset, UserPageSize)

\* PixivService._parse_offset.
_parse_offset(next_url) == IF next_url = NoUrl THEN 0 ELSE next_url

\* PixivService._parse_artwork: one entry per page of the work.
_parse_artwork(item) ==
  [p \in 1..Catalog[item].pages |->
     [illust_id |-> item, page_index |-> p - 1, collect_type |-> ""]]

SetCollectType(pages, collect_type) ==
  [p \in 1..Len(pages) |-> [pages[p] EXCEPT !.collect_type = collect_type]]

\* artworks_list.append / extend, kept to MaxList entries.
Extend(list, more) ==
  SubSeq(list \o more, 1, Min(Len(list) + Len(more), MaxList))

RECURSIVE ParseAll(_, _)
ParseAll(items, collect_type) ==
  IF items = << >> THEN << >>
  ELSE SetCollectType(_parse_artwork(Head(items)), collect_type)
       \o ParseAll(Tail(items), collect_type)

\* -------------------------------------------------------------------- state
VARIABLES
  artworks,    \* artworks table: sequence of rows in insertion order
  follows,     \* follows table: per creator, whether a row exists and its dates
  logs,        \* collection_logs table
  finals,      \* per log, how often update_success / update_error touched it
  calls,       \* per log, how the invocation that owns it ended
  feed,        \* remote: works of followed creators, newest first
  following,   \* remote: the account's following list
  faulty,      \* whether remote calls and the token refresh may fail
  pc,          \* position of the service thread
  rank,        \* locals of collect_rank
  sync,        \* locals of sync_follows
  bf,          \* locals of collect_single_user_artworks
  fnw,         \* locals of collect_follow_new_works
  configs,     \* scheduler_configs table
  now,         \* dispatcher clock, minutes
  invoked,     \* per job type, the ticks at which its task was invoked
  queue,       \* Huey queue: tasks enqueued and not yet taken by a worker
  workers,     \* Huey consumer: what each worker thread is running
  manual,      \* tasks submitted through the collect API so far
  token,       \* stored tokens, the cached service and its token check
  limiter,     \* RateLimiter fields and the pause of its last wait()
  upd,         \* locals of update_artworks and the rows it refreshes
  sched,       \* TaskScheduler: scheduler_configs rows and scheduled jobs
  cache,       \* ConfigService: the stored value, the cache, the threads
  ftab,        \* follows table as rows, and the threads that insert
  prs,         \* one fetched page and the loop that parses its items
  ref,         \* artworks rows with their mutable fields, and the refresh run
  leg          \* ArtworkUpdater: the pages of one work and the detail call

vars == <<artworks, follows, logs, finals, calls, feed, following, faulty, pc,
          rank, sync, bf, fnw, configs, now, invoked, queue, workers,
          manual, token, limiter, upd, sched, cache, ftab, prs, ref, leg>>

store == <<artworks, follows, logs, finals, calls>>
aux2 == <<prs, ref, leg>>
aux == <<upd, sched, cache, ftab, aux2>>
remote == <<feed, following, faulty, token, limiter, aux>>
dispatch == <<configs, now, invoked, queue, workers, manual>>

Outcomes == IF faulty THEN {TRUE, FALSE} ELSE {TRUE}

NoFollow == [exists |-> FALSE, last_artwork_date |-> NoDate]

RankIdle == [log |-> NoLog]

SyncIdle ==
  [log |-> NoLog, offset |-> 0, has_more |-> FALSE, items |-> << >>,
   next_url |-> NoUrl, idx |-> 0, new_follows |-> 0,
   fetches |-> 0, stopped |-> FALSE, stop_pos |-> 0,
   saw_last |-> FALSE, refetched |-> FALSE,
   fresh |-> FALSE, failed |-> FALSE, cut |-> FALSE, cut_before |-> FALSE]

BfIdle ==
  [log |-> NoLog, user |-> 0, caller |-> "none", offset |-> 0,
   has_more |-> FALSE, artworks_list |-> << >>,
   last_artwork_date |-> NoDate, first_artwork_date |-> NoDate,
   actual_cutoff_date |-> 0, fault |-> FALSE,
   new_count |-> 0, raised |-> FALSE,
   saw_last |-> FALSE, refetched |-> FALSE]

FnwIdle ==
  [log |-> NoLog, offset |-> 0, has_more |-> FALSE, items |-> << >>,
   next_url |-> NoUrl, idx |-> 0, page_has_more |-> FALSE,
   artworks_list |-> << >>,
   saw_last |-> FALSE, refetched |-> FALSE,
   pre_ranking |-> {}, encountered |-> {}, pre_stored |-> {},
   failed |-> FALSE]

\* Feeds and following lists the remote may hold.
FeedSet == {f \in SeqsUpTo(FeedIllusts, MaxFeedLen) : NoDup(f)}
FollowingSet == {f \in SeqsUpTo(Users, MaxFollowing) : NoDup(f)}
\* Ranking pages the remote may return: works of creator 1 in any order,
\* and a page that lists a work of creator 2 twice.
RankLists == SeqsUpTo({2, 3}, 2) \cup {<<4, 4>>}

\* token_expires_at is NULL in a fresh database (migrate.py).
NoExpiry == -1

\* No service is cached and no strategy has checked the token.
NoToken == [refresh_token |-> TRUE, pixiv |-> FALSE, client |-> FALSE,
            user_id |-> FALSE, expiry |-> NoExpiry, clock |-> 0,
            phase |-> "idle", log |-> NoLog, outcome |-> "none",
            stored_in_run |-> TRUE, client_at_start |-> FALSE,
            reused |-> FALSE, expiry_at_check |-> NoExpiry,
            clock_at_check |-> 0, saved |-> FALSE, remote_calls |-> 0,
            data_calls |-> 0]

\* last_error_code is None, and the value of "no handle_error call since
\* the last wait()".
NoCode == -1

NotReported == -2

\* RateLimiter.__init__: no request and no error seen yet.
NoLimiter == [last_request_time |-> FALSE, last_error_time |-> FALSE,
              last_error_code |-> NoCode, pending |-> NotReported,
              served |-> NotReported, delay |-> 0, slept |-> 0]

\* update_artworks is not running and no row is due.
NoUpdate == [phase |-> "idle", log |-> NoLog, rows |-> << >>, idx |-> 0,
             updated_count |-> 0, data_calls |-> 0, paced |-> TRUE,
             unpaced |-> FALSE]

\* No job with this id in the scheduler.
NoJob == -1

\* A crontab_expression CronTrigger.from_crontab rejects, such as ''.
BadCron == 0

\* collect_type values a scheduler_configs row can carry: the five job types
\* and 'cleanup_logs', which the legacy /config/scheduler endpoint accepts.
SchedTypes == {"ranking_works", "follow_new_follow", "follow_new_works",
               "update_artworks", "clean_up_logs", "cleanup_logs"}

\* No scheduler_configs row.
NoRow == [exists |-> FALSE, is_active |-> FALSE, crontab_expression |-> BadCron]

\* TaskScheduler.__init__: no job is scheduled, the scheduler is not started.
NoScheduler ==
  [started |-> FALSE, rows |-> [t \in SchedTypes |-> NoRow],
   jobs |-> [t \in SchedTypes |-> NoJob],
   before |-> [t \in SchedTypes |-> NoJob],
   outcome |-> "none", fresh |-> FALSE, started_before |-> FALSE,
   writes |-> 0]

\* Config.HUEY_WORKER_COUNT worker threads in the consumer process.
WorkerCount == 2

\* No value: the 'all' entry is not in the cache, nothing was returned.
NoValue == -1

\* Threads that share one ConfigService: the two Huey worker threads.
Threads == 1..WorkerCount

NoThread == [op |-> "idle", local |-> NoValue, arg |-> NoValue,
             ret |-> NoValue, fresh |-> FALSE]

\* ConfigService.__init__: self._cache = {}; the key holds its default.
NoCache == [db |-> [text |-> 0], all |-> NoValue,
            thr |-> [t \in Threads |-> NoThread],
            last_set |-> NoValue, sets |-> 0]

\* A worker thread outside the creation of a Follow row.
NoInsert == [strategy |-> "none", phase |-> "idle", user_id |-> 0,
             outcome |-> "none"]

\* An empty follows table and no thread in a strategy.
NoFollowTable == [rows |-> << >>, thr |-> [t \in Threads |-> NoInsert]]

\* No page is being parsed.
NoParse == [strategy |-> "none", items |-> << >>, idx |-> 0,
            processed |-> {}, aborted |-> FALSE, phase |-> "idle"]

\* No stored rows and no refresh run.
NoRefresh == [rows |-> << >>, phase |-> "idle", ran_today |-> FALSE,
              selected |-> << >>, idx |-> 0, run_calls |-> << >>,
              touched |-> {}, detail |-> [illust_id |-> 0]]

\* No work is handed to _update_single_artwork.
NoLegacy == [pages |-> << >>, before |-> << >>, action |-> "mark",
             phase |-> "idle", outcome |-> "none", order |-> << >>,
             idx |-> 0, message |-> "none"]

InitAux2 ==
  /\ prs = NoParse
  /\ ref = NoRefresh
  /\ leg = NoLegacy

InitAux ==
  /\ InitAux2
  /\ upd = NoUpdate
  /\ sched = NoScheduler
  /\ cache = NoCache
  /\ ftab = NoFollowTable

\* Empty tables and no strategy running.
InitTables ==
  /\ artworks = << >>
  /\ follows = [u \in Users |-> NoFollow]
  /\ logs = << >>
  /\ finals = << >>
  /\ calls = << >>
  /\ pc = "idle"
  /\ rank = RankIdle
  /\ sync = SyncIdle
  /\ bf = BfIdle
  /\ fnw = FnwIdle

InitStore ==
  /\ token = NoToken
  /\ limiter = NoLimiter
  /\ InitAux
  /\ InitTables

\* Job types with a task function (_get_task_function), and the cron
\* expressions in use: "*/p * * * *" is written as its period p in minutes.
JobTypes == {"ranking_works", "follow_new_follow", "follow_new_works",
             "update_artworks", "clean_up_logs"}
CronPeriods == {2, 3}
NoTime == 0 - 1         \* last_run_time is NULL

\* The worker threads, each idle or running one task.
Workers == 1..WorkerCount
IdleWorker == [task |-> "none", phase |-> "idle", log |-> NoLog,
               existing |-> FALSE]

InitHuey ==
  /\ queue = << >>
  /\ workers = [w \in Workers |-> IdleWorker]
  /\ manual = 0

InitDispatch ==
  /\ configs = [j \in JobTypes |->
                  [is_active |-> FALSE, crontab_expression |-> 2,
                   last_run_time |-> NoTime]]
  /\ now = 0
  /\ invoked = [j \in JobTypes |-> {}]
  /\ InitHuey

Init ==
  /\ InitStore
  /\ InitDispatch
  /\ feed \in FeedSet
  /\ following \in FollowingSet
  /\ faulty = TRUE

\* The log row of an invocation is finalized.
\* How an invocation ends: whether its body raised an exception nothing
\* inside caught, and whether the call returned or raised to its caller.
NoCall == [exc |-> FALSE, result |-> "pending"]

returned == [exc |-> FALSE, result |-> "returned"]

\* Variant: the except clause swallows the exception.
except_clause_Mut == [exc |-> TRUE, result |-> "returned"]

\* The outer except clause of a strategy: update_error, then raise.
except_clause == [exc |-> TRUE, result |-> "raised"]

LogSuccess(log_id, artworks_count) ==
  /\ logs' = update_success(logs, log_id, artworks_count)
  /\ finals' = [finals EXCEPT ![log_id] = @ + 1]
  /\ calls' = [calls EXCEPT ![log_id] = returned]

LogError(log_id) ==
  /\ logs' = update_error(logs, log_id)
  /\ finals' = [finals EXCEPT ![log_id] = @ + 1]
  /\ calls' = [calls EXCEPT ![log_id] = except_clause]

LogCreate(log_type) ==
  /\ logs' = create_log(logs, log_type)
  /\ finals' = Append(finals, 0)
  /\ calls' = Append(calls, NoCall)

\* ------------------------------------------------------------ collect_rank
\* create_log, before the try block.
RankStart ==
  /\ pc = "idle"
  /\ Len(logs) < MaxLogs
  /\ \E mode \in RankModes :
       /\ LogCreate("ranking_works")
       /\ rank' = [log |-> Len(logs) + 1]
  /\ pc' = "rank"
  /\ UNCHANGED <<artworks, follows, remote, sync, bf, fnw, dispatch>>

\* The try block: token, one ranking fetch, parse, batch_create, log.
RankRun ==
  /\ pc = "rank"
  /\ \E token_ok \in Outcomes, fetch_ok \in Outcomes, illusts \in RankLists :
       LET artworks_list == ParseAll(illusts, "ranking_works")
           saved == batch_create(artworks, artworks_list)
       IN  IF ~token_ok \/ ~fetch_ok \/ illusts = << >> \/ saved.raised
           THEN /\ LogError(rank.log)
                /\ artworks' = IF token_ok /\ fetch_ok /\ illusts # << >>
                               THEN saved.rows ELSE artworks
           ELSE /\ artworks' = saved.rows
                /\ LogSuccess(rank.log, saved.created)
  /\ pc' = "idle"
  /\ rank' = RankIdle
  /\ UNCHANGED <<follows, remote, sync, bf, fnw, dispatch>>

\* A strategy whose token check fails: the log is created and set to failed.
LogCreateFailed(log_type) ==
  /\ logs' = update_error(create_log(logs, log_type), Len(logs) + 1)
  /\ finals' = Append(finals, 1)
  /\ calls' = Append(calls, except_clause)

\* sync_follows without client.user_id: the log is created, set to failed
\* by update_error, and the call returns {'success': False}.
LogCreateReturned(log_type) ==
  /\ logs' = update_error(create_log(logs, log_type), Len(logs) + 1)
  /\ finals' = Append(finals, 1)
  /\ calls' = Append(calls, returned)

\* ------------------------------------------------------------ sync_follows
get_following(offset) == PageOf(following, offset, FollowingPageSize)

\* create_log, _ensure_valid_token and the check of client.user_id.
SyncStart ==
  /\ pc = "idle"
  /\ Len(logs) < MaxLogs
  /\ \E token_ok \in Outcomes, user_id_ok \in Outcomes :
       IF token_ok /\ user_id_ok
       THEN /\ LogCreate("follow_new_follow")
            /\ sync' = [SyncIdle EXCEPT
                          !.log = Len(logs) + 1,
                          !.has_more = TRUE,
                          !.fresh = \A u \in Users : ~follows[u].exists,
                          !.cut = sync.cut,
                          !.cut_before = sync.cut]
            /\ pc' = "sync_loop"
       ELSE /\ IF token_ok
               THEN LogCreateReturned("follow_new_follow")
               ELSE LogCreateFailed("follow_new_follow")
            /\ sync' = [SyncIdle EXCEPT !.cut = sync.cut, !.failed = TRUE]
            /\ pc' = "idle"
  /\ UNCHANGED <<artworks, follows, remote, rank, bf, fnw, dispatch>>

\* Top of the while loop: one get_following call.
SyncFetch ==
  /\ pc = "sync_loop"
  /\ \E ok \in Outcomes :
       LET follows_data == get_following(sync.offset)
           ghost == [sync EXCEPT !.fetches = @ + 1,
                                 !.refetched = @ \/ sync.saw_last]
       IN  IF ~ok
           THEN /\ sync' = [ghost EXCEPT !.failed = TRUE,
                                         !.cut = @ \/ sync.fresh]
                /\ pc' = "sync_end"
           ELSE IF follows_data.items = << >>
           THEN /\ sync' = [ghost EXCEPT !.has_more = FALSE]
                /\ pc' = "sync_end"
           ELSE /\ sync' = [ghost EXCEPT
                              !.items = follows_data.items,
                              !.next_url = follows_data.next_url,
                              !.idx = 1,
                              !.saw_last = @ \/ follows_data.next_url = NoUrl]
                /\ pc' = "sync_item"
  /\ UNCHANGED <<store, remote, rank, bf, fnw, dispatch>>

\* Variant: the known creator ends the for loop but not the pagination.
SyncHasMoreAfterKnown_Mut == TRUE

\* has_more after an already known creator is met.
SyncHasMoreAfterKnown == FALSE

\* One iteration of the for loop over user_previews.
SyncItem ==
  /\ pc = "sync_item"
  /\ LET user_info_id == sync.items[sync.idx]
     IN  IF ~follows[user_info_id].exists
         THEN /\ follows' = [follows EXCEPT ![user_info_id].exists = TRUE]
              /\ sync' = [sync EXCEPT !.new_follows = @ + 1, !.idx = @ + 1]
              /\ pc' = IF sync.idx < Len(sync.items)
                       THEN "sync_item" ELSE "sync_page_end"
         ELSE /\ UNCHANGED follows
              /\ sync' = [sync EXCEPT !.has_more = SyncHasMoreAfterKnown,
                                      !.stopped = TRUE,
                                      !.stop_pos = sync.offset + sync.idx]
              /\ pc' = "sync_page_end"
  /\ UNCHANGED <<artworks, logs, finals, calls, remote, rank, bf, fnw, dispatch>>

\* After the for loop: next_url decides whether another page follows.
SyncPageEnd ==
  /\ pc = "sync_page_end"
  /\ LET has_more == IF sync.next_url = NoUrl THEN FALSE ELSE sync.has_more
         offset == IF sync.next_url = NoUrl THEN sync.offset
                   ELSE _parse_offset(sync.next_url)
     IN  /\ sync' = [sync EXCEPT !.has_more = has_more, !.offset = offset,
                                 !.items = << >>, !.idx = 0]
         /\ pc' = IF has_more THEN "sync_loop" ELSE "sync_end"
  /\ UNCHANGED <<store, remote, rank, bf, fnw, dispatch>>

\* After the while loop: update_success and return.
SyncFinish ==
  /\ pc = "sync_end"
  /\ LogSuccess(sync.log, 0)
  /\ sync' = [sync EXCEPT !.has_more = FALSE, !.items = << >>, !.idx = 0,
                          !.next_url = NoUrl, !.offset = 0]
  /\ pc' = "idle"
  /\ UNCHANGED <<artworks, follows, remote, rank, bf, fnw, dispatch>>

\* --------------------------------------------- collect_single_user_artworks
\* get_utc_now() - timedelta(days=backtrack_years * 365)
initial_cutoff_date == NowDate - BacktrackYears

\* Variant: the cutoff is never widened.
adjust_cutoff_Mut(post_date, actual_cutoff_date) == actual_cutoff_date

\* The cutoff after the first work of the traversal is seen.
adjust_cutoff(post_date, actual_cutoff_date) ==
  IF post_date < initial_cutoff_date
  THEN post_date - BacktrackYears
  ELSE actual_cutoff_date

\* Variant: no work is too old.
before_cutoff_Mut(post_date, actual_cutoff_date) == FALSE

\* `if post_date < actual_cutoff_date`: the work ends the traversal.
before_cutoff(post_date, actual_cutoff_date) == post_date < actual_cutoff_date

\* The for loop over one page of user_illusts.illusts, from item k on.
\* loc carries artworks_list, first_artwork_date, actual_cutoff_date,
\* has_more and current_page_max_date.
RECURSIVE process_user_page(_, _, _)
process_user_page(loc, items, k) ==
  IF k > Len(items) THEN loc
  ELSE LET item == items[k]
           post_date == Catalog[item].date
           is_first == loc.first_artwork_date = NoDate
           cutoff == IF is_first
                     THEN adjust_cutoff(post_date, loc.actual_cutoff_date)
                     ELSE loc.actual_cutoff_date
           page_max == IF loc.current_page_max_date = NoDate
                          \/ post_date > loc.current_page_max_date
                       THEN post_date ELSE loc.current_page_max_date
           seen == [loc EXCEPT
                      !.first_artwork_date = IF is_first THEN post_date ELSE @,
                      !.actual_cutoff_date = cutoff,
                      !.current_page_max_date = page_max]
       IN  IF before_cutoff(post_date, cutoff)
           THEN [seen EXCEPT !.has_more = FALSE]
           ELSE process_user_page(
                  [seen EXCEPT !.artworks_list =
                     Extend(@, SetCollectType(_parse_artwork(item),
                                              "follow_user_artworks"))],
                  items, k + 1)

\* Locals at the top of the try block.
BfEnter(user_id, caller, log_id) ==
  [BfIdle EXCEPT !.log = log_id, !.user = user_id, !.caller = caller,
                 !.has_more = TRUE,
                 !.actual_cutoff_date = initial_cutoff_date]

\* create_log and _ensure_valid_token, called for a stored Follow.
BackfillStart ==
  /\ pc = "idle"
  /\ Len(logs) < MaxLogs
  /\ \E user_id \in Users, token_ok \in Outcomes :
       /\ follows[user_id].exists
       /\ IF token_ok
          THEN /\ LogCreate("follow_user_artworks")
               /\ bf' = BfEnter(user_id, "top", Len(logs) + 1)
               /\ pc' = "bf_loop"
          ELSE /\ LogCreateFailed("follow_user_artworks")
               /\ bf' = BfIdle
               /\ pc' = "idle"
  /\ UNCHANGED <<artworks, follows, remote, rank, sync, fnw, dispatch>>

\* One iteration of the while loop: fetch a page of the creator's works,
\* run the for loop over it, then update last_artwork_date and the offset.
BackfillPage ==
  /\ pc = "bf_loop"
  /\ \E ok \in Outcomes :
       LET user_illusts == get_user_illusts(bf.user, bf.offset)
           loc == process_user_page(
                    [artworks_list |-> bf.artworks_list,
                     first_artwork_date |-> bf.first_artwork_date,
                     actual_cutoff_date |-> bf.actual_cutoff_date,
                     has_more |-> TRUE,
                     current_page_max_date |-> NoDate],
                    user_illusts.items, 1)
           last == IF loc.current_page_max_date # NoDate
                      /\ (bf.last_artwork_date = NoDate
                          \/ loc.current_page_max_date > bf.last_artwork_date)
                   THEN loc.current_page_max_date ELSE bf.last_artwork_date
           has_more == IF user_illusts.next_url = NoUrl THEN FALSE
                       ELSE loc.has_more
           offset == IF user_illusts.next_url = NoUrl THEN bf.offset
                     ELSE _parse_offset(user_illusts.next_url)
           ghost == [bf EXCEPT !.refetched = @ \/ bf.saw_last]
       IN  IF ~ok
           THEN /\ bf' = [ghost EXCEPT !.fault = TRUE]
                /\ pc' = "bf_end"
           ELSE IF user_illusts.items = << >>
           THEN /\ bf' = ghost
                /\ pc' = "bf_end"
           ELSE /\ bf' = [ghost EXCEPT
                            !.saw_last = @ \/ user_illusts.next_url = NoUrl,
                            !.artworks_list = loc.artworks_list,
                            !.first_artwork_date = loc.first_artwork_date,
                            !.actual_cutoff_date = loc.actual_cutoff_date,
                            !.last_artwork_date = last,
                            !.has_more = has_more,
                            !.offset = offset]
                /\ pc' = IF has_more THEN "bf_loop" ELSE "bf_end"
  /\ UNCHANGED <<store, remote, rank, sync, fnw, dispatch>>

\* The value written to Follow.last_artwork_date after the traversal.
new_last_artwork_date(stored, last_artwork_date) == last_artwork_date

\* Variant: the exception of the nested call ends the outer pagination.
after_nested_raise_Mut == "fnw_end"

\* Where the outer run is after the nested call raised: the inner except of
\* _process_user_from_artwork logs it and returns to _process_single_artwork.
after_nested_raise == "fnw_resume"

\* After the loop: batch_create, the Follow update and the log.  The
\* exception of a failing save goes to the caller; _process_user_from_artwork
\* catches it, any other caller sees it.
BackfillFinish ==
  /\ pc = "bf_end"
  /\ LET saved == batch_create(artworks, bf.artworks_list)
     IN  IF saved.raised
         THEN /\ LogError(bf.log)
              /\ artworks' = saved.rows
              /\ UNCHANGED follows
              /\ bf' = [BfIdle EXCEPT !.raised = TRUE]
         ELSE /\ artworks' = saved.rows
              /\ follows' =
                   IF bf.last_artwork_date # NoDate /\ follows[bf.user].exists
                   THEN [follows EXCEPT ![bf.user].last_artwork_date =
                           new_last_artwork_date(@, bf.last_artwork_date)]
                   ELSE follows
              /\ LogSuccess(bf.log, saved.created)
              /\ bf' = [BfIdle EXCEPT !.new_count = saved.created]
  /\ pc' = IF bf.caller # "fnw" THEN "idle"
           ELSE IF batch_create(artworks, bf.artworks_list).raised
           THEN after_nested_raise
           ELSE "fnw_resume"
  /\ UNCHANGED <<remote, rank, sync, fnw, dispatch>>

\* ------------------------------------------------- collect_follow_new_works
get_follow_illusts(offset) == PageOf(feed, offset, FeedPageSize)

\* Creators of the feed that have no Follow row yet: each gets one nested
\* backfill, with a log of its own.
NewCreators == {Catalog[feed[k]].user : k \in 1..Len(feed)}
                 \ {u \in Users : follows[u].exists}

\* Works stored once, under a ranking provenance.
StoredAsRanking ==
  {i \in Illusts :
     /\ Cardinality(RowsFor(artworks, i, 0)) = 1
     /\ \A k \in RowsFor(artworks, i, 0) :
          artworks[k].collect_type \in RankingTypes}

\* Works whose first page has a row, under any provenance.
Stored == {i \in Illusts : RowsFor(artworks, i, 0) # {}}

\* create_log and _ensure_valid_token.
FnwStart ==
  /\ pc = "idle"
  /\ Len(logs) + Cardinality(NewCreators) < MaxLogs
  /\ \E token_ok \in Outcomes :
       IF token_ok
       THEN /\ LogCreate("follow_new_works")
            /\ fnw' = [FnwIdle EXCEPT !.log = Len(logs) + 1,
                                      !.has_more = TRUE,
                                      !.pre_ranking = StoredAsRanking,
                                      !.pre_stored = Stored]
            /\ pc' = "fnw_loop"
       ELSE /\ LogCreateFailed("follow_new_works")
            /\ fnw' = FnwIdle
            /\ pc' = "idle"
  /\ UNCHANGED <<artworks, follows, remote, rank, sync, bf, dispatch>>

\* Top of the while loop of _collect_follow_works: _fetch_follow_page.
FnwFetch ==
  /\ pc = "fnw_loop"
  /\ \E ok \in Outcomes :
       LET follow_data == get_follow_illusts(fnw.offset)
           ghost == [fnw EXCEPT !.refetched = @ \/ fnw.saw_last]
       IN  IF ~ok \/ follow_data.items = << >>
           THEN /\ fnw' = [ghost EXCEPT !.failed = ~ok]
                /\ pc' = "fnw_end"
           ELSE /\ fnw' = [ghost EXCEPT
                             !.items = follow_data.items,
                             !.next_url = follow_data.next_url,
                             !.idx = 1,
                             !.page_has_more = fnw.has_more,
                             !.saw_last = @ \/ follow_data.next_url = NoUrl]
                /\ pc' = "fnw_item"
  /\ UNCHANGED <<store, remote, rank, sync, bf, dispatch>>

\* Variant: a ranking row is processed without the provenance update.
should_process_artwork_Mut(collect_type) ==
  IF collect_type \in FollowTypes THEN "stop"
  ELSE IF collect_type \in RankingTypes THEN "new"
  ELSE "skip"

\* _should_process_artwork on a stored row: "stop", "reclassify" or "skip".
should_process_artwork(collect_type) ==
  IF collect_type \in FollowTypes THEN "stop"
  ELSE IF collect_type \in RankingTypes THEN "reclassify"
  ELSE "skip"

\* The raise of Follow.last_artwork_date for a creator already followed.
raise_last_artwork_date(stored, artwork_date) ==
  IF stored = NoDate \/ artwork_date > stored THEN artwork_date ELSE stored

FnwNextItem == IF fnw.idx < Len(fnw.items) THEN "fnw_item" ELSE "fnw_page_end"

\* One iteration of the for loop of _process_follow_works:
\* _should_process_artwork, then _process_single_artwork.
FnwItem ==
  /\ pc = "fnw_item"
  /\ LET item == fnw.items[fnw.idx]
         existing == get_by_illust_id_and_page(artworks, item, 0)
         verdict == IF existing.id = 0 THEN "new"
                    ELSE should_process_artwork(
                           artworks[existing.id].collect_type)
         user_id == Catalog[item].user
         seen == [fnw EXCEPT !.encountered = @ \cup {item}]
         pages == SetCollectType(_parse_artwork(item), "follow_new_works")
         rows == IF verdict = "reclassify"
                 THEN update_collect_type(artworks, existing.id,
                                          "follow_new_works")
                 ELSE artworks
     IN  IF existing.raised
         THEN \* MultipleResultsFound: logged, the loop continues
              /\ fnw' = [fnw EXCEPT !.idx = @ + 1]
              /\ pc' = FnwNextItem
              /\ UNCHANGED <<store, bf>>
         ELSE IF verdict \in {"stop", "skip"}
         THEN /\ fnw' = [seen EXCEPT !.page_has_more = FALSE]
              /\ pc' = "fnw_page_end"
              /\ UNCHANGED <<store, bf>>
         ELSE IF follows[user_id].exists
         THEN /\ artworks' = rows
              /\ follows' = [follows EXCEPT ![user_id].last_artwork_date =
                               raise_last_artwork_date(@, Catalog[item].date)]
              /\ fnw' = [seen EXCEPT !.idx = @ + 1,
                                     !.artworks_list = Extend(@, pages)]
              /\ pc' = FnwNextItem
              /\ UNCHANGED <<logs, finals, calls, bf>>
         ELSE \* a new creator: the Follow row, then the nested backfill
              /\ artworks' = rows
              /\ follows' = [follows EXCEPT ![user_id].exists = TRUE]
              /\ fnw' = seen
              /\ \E token_ok \in Outcomes :
                   IF token_ok
                   THEN /\ LogCreate("follow_user_artworks")
                        /\ bf' = BfEnter(user_id, "fnw", Len(logs) + 1)
                        /\ pc' = "bf_loop"
                   ELSE /\ LogCreateFailed("follow_user_artworks")
                        /\ bf' = [BfIdle EXCEPT !.raised = TRUE]
                        /\ pc' = after_nested_raise
  /\ UNCHANGED <<remote, rank, sync, dispatch>>

\* Back in _process_single_artwork after the nested backfill returned or
\* raised: the work's pages join the list.
FnwResume ==
  /\ pc = "fnw_resume"
  /\ LET item == fnw.items[fnw.idx]
         pages == SetCollectType(_parse_artwork(item), "follow_new_works")
     IN  fnw' = [fnw EXCEPT !.idx = @ + 1,
                            !.artworks_list = Extend(@, pages)]
  /\ bf' = BfIdle
  /\ pc' = FnwNextItem
  /\ UNCHANGED <<store, remote, rank, sync, dispatch>>

\* The offset of the next fetch of _collect_follow_works.
fnw_next_offset(next_url) == _parse_offset(next_url)

\* has_more after a page of _collect_follow_works.
fnw_has_more(page_has_more, next_url) == page_has_more

\* After the for loop: has_more from the page result, offset from next_url.
FnwPageEnd ==
  /\ pc = "fnw_page_end"
  /\ LET has_more == fnw_has_more(fnw.page_has_more, fnw.next_url)
     IN  /\ fnw' = [fnw EXCEPT !.has_more = has_more,
                               !.offset = fnw_next_offset(fnw.next_url),
                               !.items = << >>, !.idx = 0]
         /\ pc' = IF has_more THEN "fnw_loop" ELSE "fnw_end"
  /\ UNCHANGED <<store, remote, rank, sync, bf, dispatch>>

\* collect_follow_new_works after _collect_follow_works returned:
\* batch_create and the log.
FnwFinish ==
  /\ pc = "fnw_end"
  /\ LET saved == batch_create(artworks, fnw.artworks_list)
     IN  IF saved.raised
         THEN /\ LogError(fnw.log)
              /\ artworks' = saved.rows
         ELSE /\ artworks' = saved.rows
              /\ LogSuccess(fnw.log, saved.created)
  /\ fnw' = [fnw EXCEPT !.has_more = FALSE, !.items = << >>, !.idx = 0,
                        !.next_url = NoUrl, !.offset = 0,
                        !.page_has_more = FALSE, !.artworks_list = << >>,
                        !.pre_stored = {}, !.failed = FALSE]
  /\ pc' = "idle"
  /\ UNCHANGED <<follows, remote, rank, sync, bf, dispatch>>

\* ------------------------------------------------------------ specification
Next ==
  \/ RankStart \/ RankRun
  \/ SyncStart \/ SyncFetch \/ SyncItem \/ SyncPageEnd \/ SyncFinish
  \/ BackfillStart \/ BackfillPage \/ BackfillFinish
  \/ FnwStart \/ FnwFetch \/ FnwItem \/ FnwResume \/ FnwPageEnd \/ FnwFinish

Spec == Init /\ [][Next]_vars

\* ------------------------------------------------------------- dispatcher
\* The public methods of SchedulerService (services/scheduler_service.py)
\* and of SchedulerRepository.
SchedulerServiceMethods ==
  {"get_instance", "reset", "get_all_configs", "update_configs"}

\* croniter(expression, base).get_next(): the first boundary after base.
cron_get_next(period, base) == ((base \div period) + 1) * period

\* _update_job_run_time: services.scheduler.update_last_run_time(job_id,
\* now) inside try/except.  The call raises AttributeError when the service
\* has no such method; the except branch only logs.
_update_job_run_time(cfg, run_time) ==
  IF "update_last_run_time" \in SchedulerServiceMethods
  THEN [cfg EXCEPT !.last_run_time = run_time]
  ELSE cfg

\* Variant: the job runs only once the boundary is behind.
should_run_Mut(cfg, current_time) ==
  /\ cfg.is_active
  /\ \/ cfg.last_run_time = NoTime
     \/ current_time > cron_get_next(cfg.crontab_expression,
                                     cfg.last_run_time)

\* should_run of schedule_dispatcher_task for one config row.
should_run(cfg, current_time) ==
  /\ cfg.is_active
  /\ \/ cfg.last_run_time = NoTime
     \/ current_time >= cron_get_next(cfg.crontab_expression,
                                      cfg.last_run_time)

\* get_all_configs: the rows in the order the dispatcher walks them.
JobOrder == <<"ranking_works", "follow_new_follow", "follow_new_works",
              "update_artworks", "clean_up_logs">>

\* The Huey tasks a job type enqueues: _execute_ranking_tasks calls three
\* task functions, every other job type one.
tasks_of(job) ==
  CASE job = "ranking_works" ->
         <<"collect_daily_rank_task", "collect_weekly_rank_task",
           "collect_monthly_rank_task">>
    [] job = "follow_new_follow" -> <<"sync_follows_task">>
    [] job = "follow_new_works" -> <<"collect_follow_new_works_task">>
    [] job = "update_artworks" -> <<"update_artworks_task">>
    [] job = "clean_up_logs" -> <<"cleanup_logs_task">>

\* The tasks one dispatcher run enqueues at current_time.
RECURSIVE due_tasks(_, _)
due_tasks(k, current_time) ==
  IF k > Len(JobOrder) THEN << >>
  ELSE (IF should_run(configs[JobOrder[k]], current_time)
        THEN tasks_of(JobOrder[k]) ELSE << >>)
       \o due_tasks(k + 1, current_time)

\* schedule_dispatcher_task, run by Huey once a minute.
DispatcherTick ==
  /\ now < MaxTime
  /\ now' = now + 1
  /\ queue' = queue \o due_tasks(1, now')
  /\ UNCHANGED <<workers, manual>>
  /\ invoked' = [j \in JobTypes |->
                   IF should_run(configs[j], now')
                   THEN invoked[j] \cup {now'} ELSE invoked[j]]
  /\ configs' = [j \in JobTypes |->
                   IF should_run(configs[j], now')
                   THEN _update_job_run_time(configs[j], now')
                   ELSE configs[j]]
  /\ UNCHANGED <<store, remote, pc, rank, sync, bf, fnw>>

\* last_run_time of a row at start: NULL, or a past time written by the
\* earlier scheduler (scheduler.py) on the same table.
StoredRunTimes == {NoTime, 0}

\* The dispatcher alone, over every configuration of the five jobs.
InitDispatcher ==
  /\ InitStore
  /\ configs \in [JobTypes -> [is_active : BOOLEAN,
                               crontab_expression : CronPeriods,
                               last_run_time : StoredRunTimes]]
  /\ now = 0
  /\ invoked = [j \in JobTypes |-> {}]
  /\ InitHuey
  /\ feed = << >>
  /\ following = << >>
  /\ faulty = FALSE

NextDispatcher == DispatcherTick

DispatchSpec == InitDispatcher /\ [][NextDispatcher]_vars

\* ------------------------------------------------------------ Huey consumer
\* The strategy a task function calls, by the log_type it records.
collect_type_of(task) ==
  CASE task = "collect_daily_rank_task" -> "ranking_works"
    [] task = "collect_weekly_rank_task" -> "ranking_works"
    [] task = "collect_monthly_rank_task" -> "ranking_works"
    [] task = "sync_follows_task" -> "follow_new_follow"
    [] task = "collect_follow_new_works_task" -> "follow_new_works"
    [] task = "update_artworks_task" -> "update_artworks"
    [] task = "cleanup_logs_task" -> "clean_up_logs"

\* Tasks the collect API submits on request, and the tasks whose strategy
\* ends in batch_create.
ManualTasks == {"collect_daily_rank_task", "collect_follow_new_works_task",
                "sync_follows_task"}
SavingTasks == {"collect_daily_rank_task", "collect_weekly_rank_task",
                "collect_monthly_rank_task", "collect_follow_new_works_task"}

\* The work the day's ranking and the follow feed both list.
SharedWork == 2

\* Manual submissions in one behaviour.
MaxManual == 2

\* A collect API endpoint: the task function is called, which enqueues it.
ManualTrigger ==
  /\ manual < MaxManual
  /\ \E task \in ManualTasks : queue' = Append(queue, task)
  /\ manual' = manual + 1
  /\ UNCHANGED <<store, remote, pc, rank, sync, bf, fnw, configs, now,
                 invoked, workers>>

\* A worker thread takes the next task; the strategy creates its log.
WorkerTake(w) ==
  /\ workers[w].phase = "idle"
  /\ queue # << >>
  /\ LogCreate(collect_type_of(Head(queue)))
  /\ workers' = [workers EXCEPT ![w] =
                   [task |-> Head(queue), phase |-> "run",
                    log |-> Len(logs) + 1, existing |-> FALSE]]
  /\ queue' = Tail(queue)
  /\ UNCHANGED <<artworks, follows, remote, pc, rank, sync, bf, fnw,
                 configs, now, invoked, manual>>

\* batch_create in the worker's own session: the SELECT for the listed work.
WorkerSelect(w) ==
  /\ workers[w].phase = "run"
  /\ workers[w].task \in SavingTasks
  /\ LET found == get_by_illust_id_and_page(artworks, SharedWork, 0)
     IN  IF found.raised
         THEN /\ LogError(workers[w].log)
              /\ workers' = [workers EXCEPT ![w] = IdleWorker]
         ELSE /\ workers' = [workers EXCEPT ![w].phase = "commit",
                                            ![w].existing = found.id # 0]
              /\ UNCHANGED <<logs, finals, calls>>
  /\ UNCHANGED <<artworks, follows, remote, pc, rank, sync, bf, fnw,
                 configs, now, invoked, queue, manual>>

\* session.add and the commit of session_scope, then update_success.
WorkerCommit(w) ==
  /\ workers[w].phase = "commit"
  /\ LET row == SetCollectType(_parse_artwork(SharedWork),
                               collect_type_of(workers[w].task))[1]
     IN  IF workers[w].existing
         THEN /\ UNCHANGED artworks
              /\ LogSuccess(workers[w].log, 0)
         ELSE /\ artworks' = Append(artworks, row)
              /\ LogSuccess(workers[w].log, 1)
  /\ workers' = [workers EXCEPT ![w] = IdleWorker]
  /\ UNCHANGED <<follows, remote, pc, rank, sync, bf, fnw, configs, now,
                 invoked, queue, manual>>

\* A strategy that stores no Artwork row returns.
WorkerReturn(w) ==
  /\ workers[w].phase = "run"
  /\ workers[w].task \notin SavingTasks
  /\ LogSuccess(workers[w].log, 0)
  /\ workers' = [workers EXCEPT ![w] = IdleWorker]
  /\ UNCHANGED <<artworks, follows, remote, pc, rank, sync, bf, fnw,
                 configs, now, invoked, queue, manual>>

\* The consumer with its dispatcher: at most one scheduled job is active.
InitConsumer ==
  /\ InitStore
  /\ configs \in {c \in [JobTypes -> [is_active : BOOLEAN,
                                      crontab_expression : {2},
                                      last_run_time : {NoTime}]] :
                    Cardinality({j \in JobTypes : c[j].is_active}) <= 1}
  /\ now = 0
  /\ invoked = [j \in JobTypes |-> {}]
  /\ InitHuey
  /\ feed = << >>
  /\ following = << >>
  /\ faulty = FALSE

NextConsumer ==
  \/ DispatcherTick
  \/ ManualTrigger
  \/ \E w \in Workers : WorkerTake(w)
  \/ \E w \in Workers : WorkerSelect(w)
  \/ \E w \in Workers : WorkerCommit(w)
  \/ \E w \in Workers : WorkerReturn(w)

HueySpec == InitConsumer /\ [][NextConsumer]_vars

\* ------------------------------------------------- token and service cache
\* Minutes of the clock the token check reads.
MaxClock == 8

\* timedelta(minutes=5) of the legacy PixivAuth._is_token_valid.
TokenMargin == 5

\* new_expiry = now + timedelta(hours=1), in minutes.
TokenLifetime == 60

\* Values token_expires_at can hold when the consumer process starts.
StoredExpiries == {NoExpiry} \cup (1..(MaxClock + TokenMargin))

\* PixivService.get_instance: None when the stored refresh_token is empty.
get_instance(t) == IF ~t.refresh_token THEN FALSE ELSE TRUE

\* Services.pixiv: the cached service, or get_instance() when none is cached.
services_pixiv(t) == IF ~t.pixiv THEN get_instance(t) ELSE TRUE

\* Variant: a task without a service returns as a finished collection.
no_service_return_Mut == "result"

\* The task wrapper without a service:
\* return {'success': False, 'message': 'Pixiv service not initialized'}
no_service_return == "not_initialized"

\* _init_client_and_limiter raises ValueError without a stored refresh_token.
init_client_raises(t) == ~t.refresh_token

\* _ensure_valid_token reuses the token: expiry and expiry > now, and the
\* client has a user_id.
token_reused(expiry, clock, user_id) ==
  expiry # NoExpiry /\ expiry > clock /\ user_id

TokenFrame ==
  UNCHANGED <<artworks, follows, feed, following, faulty, limiter, pc, rank,
              sync, bf, fnw, dispatch, aux>>

\* POST /config (batch_set_config) and POST /config/tokens (save_tokens) in
\* the web process: the stored refresh_token is set or emptied.
update_config ==
  /\ \E value \in BOOLEAN :
       token' = [token EXCEPT !.refresh_token = value,
                              !.stored_in_run = @ \/ value]
  /\ token'.refresh_token # token.refresh_token
  /\ UNCHANGED <<logs, finals, calls>>
  /\ TokenFrame

\* get_utc_now() moves on.
ClockTick ==
  /\ token.clock < MaxClock
  /\ token' = [token EXCEPT !.clock = @ + 1]
  /\ UNCHANGED <<logs, finals, calls>>
  /\ TokenFrame

\* collect_daily_rank_task up to the call of the strategy: without a service
\* the task returns {'success': False} at once.
TaskEnter ==
  /\ token.phase = "idle"
  /\ Len(logs) < MaxLogs
  /\ LET started == [token EXCEPT !.stored_in_run = token.refresh_token,
                                  !.client_at_start = token.client,
                                  !.reused = FALSE, !.saved = FALSE,
                                  !.remote_calls = 0, !.data_calls = 0,
                                  !.log = NoLog]
     IN  IF services_pixiv(token)
         THEN token' = [started EXCEPT !.pixiv = TRUE, !.phase = "strategy",
                                       !.outcome = "running"]
         ELSE token' = [started EXCEPT !.outcome = no_service_return]
  /\ UNCHANGED <<logs, finals, calls>>
  /\ TokenFrame

\* collect_rank before its try block: _ensure_initialized, then create_log.
\* A ValueError of _ensure_initialized reaches the task's except clause.
StrategyEnter ==
  /\ token.phase = "strategy"
  /\ IF ~token.client /\ init_client_raises(token)
     THEN /\ token' = [token EXCEPT !.phase = "idle", !.outcome = "failed"]
          /\ UNCHANGED <<logs, finals, calls>>
     ELSE /\ LogCreate("ranking_works")
          /\ token' = [token EXCEPT !.client = TRUE, !.phase = "token",
                                    !.log = Len(logs) + 1]
  /\ TokenFrame

\* _ensure_valid_token: reuse, or refresh_tokens, save_tokens,
\* set_token_expiry and verify_token (its exception is only logged).
EnsureValidToken ==
  /\ token.phase = "token"
  /\ LET checked == [token EXCEPT !.expiry_at_check = token.expiry,
                                  !.clock_at_check = token.clock]
     IN  IF token_reused(token.expiry, token.clock, token.user_id)
         THEN /\ token' = [checked EXCEPT !.reused = TRUE, !.phase = "data"]
              /\ UNCHANGED <<logs, finals, calls>>
         ELSE \E refresh_ok \in Outcomes :
                IF refresh_ok
                THEN /\ token' = [checked EXCEPT
                                    !.refresh_token = TRUE,
                                    !.user_id = TRUE,
                                    !.expiry = token.clock + TokenLifetime,
                                    !.saved = TRUE,
                                    !.remote_calls = @ + 2,
                                    !.phase = "data"]
                     /\ UNCHANGED <<logs, finals, calls>>
                ELSE /\ token' = [checked EXCEPT !.remote_calls = @ + 1,
                                                 !.phase = "idle",
                                                 !.outcome = "failed"]
                     /\ LogError(token.log)
  /\ TokenFrame

\* The rest of the try block: get_ranking and what follows it, ending in
\* update_success or in the except clause.
DataCall ==
  /\ token.phase = "data"
  /\ \E fetch_ok \in Outcomes :
       /\ token' = [token EXCEPT !.remote_calls = @ + 1,
                                 !.data_calls = @ + 1,
                                 !.phase = "idle",
                                 !.outcome = IF fetch_ok THEN "result"
                                             ELSE "failed"]
       /\ IF fetch_ok THEN LogSuccess(token.log, 0) ELSE LogError(token.log)
  /\ TokenFrame

\* The consumer process starts with no service cached.
InitToken ==
  /\ InitTables
  /\ InitAux
  /\ limiter = NoLimiter
  /\ InitDispatch
  /\ feed = << >>
  /\ following = << >>
  /\ faulty = TRUE
  /\ \E stored \in BOOLEAN, user_id \in BOOLEAN, expiry \in StoredExpiries :
       token = [NoToken EXCEPT !.refresh_token = stored,
                               !.user_id = user_id,
                               !.expiry = expiry]

NextToken ==
  \/ update_config
  \/ ClockTick
  \/ TaskEnter
  \/ StrategyEnter
  \/ EnsureValidToken
  \/ DataCall

TokenSpec == InitToken /\ [][NextToken]_vars

\* ------------------------------------------------------------ RateLimiter
\* Defaults of RateLimiter.__init__, in seconds.
delay_min == 1

delay_max == 3

error_delay_429_min == 30

error_delay_429_max == 60

error_delay_403_min == 30

error_delay_403_max == 50

error_delay_other_min == 10

error_delay_other_max == 30

\* Error codes handle_error is called with; the strategies pass none.
ErrorCodes == {NoCode, 429, 403, 500}

\* Seconds between the last request or error and the call of wait().
Elapsed == {0, 2, 100}

\* random.uniform(a, b), by its two ends.
uniform(a, b) == {a, b}

\* Python truth value of last_error_code: None and 0 are false.
truthy(error_code) == error_code # NoCode /\ error_code # 0

\* The interval _get_error_delay draws from.
error_interval(error_code) ==
  IF error_code = 429
  THEN [min |-> error_delay_429_min, max |-> error_delay_429_max]
  ELSE IF error_code = 403
       THEN [min |-> error_delay_403_min, max |-> error_delay_403_max]
       ELSE [min |-> error_delay_other_min, max |-> error_delay_other_max]

_get_error_delay(error_code) ==
  uniform(error_interval(error_code).min, error_interval(error_code).max)

\* time.sleep(delay - elapsed) when elapsed < delay.
wait_time(delay, elapsed) == IF elapsed < delay THEN delay - elapsed ELSE 0

\* wait(): if self.last_error_time and self.last_error_code
takes_error_branch ==
  limiter.last_error_time /\ truthy(limiter.last_error_code)

LimiterFrame ==
  UNCHANGED <<store, feed, following, faulty, token, pc, rank, sync, bf, fnw,
              dispatch, aux>>

\* RateLimiter.handle_error(error_code)
handle_error ==
  /\ \E error_code \in ErrorCodes :
       limiter' = [limiter EXCEPT !.last_error_time = TRUE,
                                  !.last_error_code = error_code,
                                  !.pending = error_code]
  /\ LimiterFrame

\* RateLimiter.wait(), on the limiter's fields.
wait_call ==
  \E elapsed \in Elapsed :
    IF takes_error_branch
    THEN \E delay \in _get_error_delay(limiter.last_error_code) :
           limiter' = [limiter EXCEPT !.last_error_time = FALSE,
                                      !.last_error_code = NoCode,
                                      !.last_request_time = TRUE,
                                      !.served = limiter.pending,
                                      !.pending = NotReported,
                                      !.delay = delay,
                                      !.slept = wait_time(delay, elapsed)]
    ELSE IF limiter.last_request_time
         THEN \E delay \in uniform(delay_min, delay_max) :
                limiter' = [limiter EXCEPT
                              !.last_request_time = TRUE,
                              !.served = limiter.pending,
                              !.pending = NotReported,
                              !.delay = delay,
                              !.slept = wait_time(delay, elapsed)]
         ELSE limiter' = [limiter EXCEPT !.last_request_time = TRUE,
                                         !.served = limiter.pending,
                                         !.pending = NotReported,
                                         !.delay = 0,
                                         !.slept = 0]

\* RateLimiter.wait() called on its own.
wait ==
  /\ wait_call
  /\ LimiterFrame

\* A limiter as _init_client_and_limiter builds it.
InitLimiter ==
  /\ InitStore
  /\ InitDispatch
  /\ feed = << >>
  /\ following = << >>
  /\ faulty = TRUE

NextLimiter ==
  \/ handle_error
  \/ wait

LimiterSpec == InitLimiter /\ [][NextLimiter]_vars

\* --------------------------------------------------------- update_artworks
\* Rows get_artworks_for_update can return in one run.
MaxUpdate == 2

\* total_bookmarks as stored and as the remote reports it.
Bookmarks == {0, 1}

\* The rows due for a refresh: illust_id and the stored total_bookmarks.
DueRows ==
  {r \in SeqsUpTo(FeedIllusts \X Bookmarks, MaxUpdate) :
     NoDup([k \in 1..Len(r) |-> r[k][1]])}

UpdateFrame ==
  UNCHANGED <<artworks, follows, feed, following, faulty, token, pc, rank,
              sync, bf, fnw, dispatch, sched, cache, ftab, aux2>>

\* create_log, _ensure_valid_token and get_artworks_for_update.
UpdateStart ==
  /\ upd.phase = "idle"
  /\ Len(logs) < MaxLogs
  /\ \E token_ok \in Outcomes :
       IF token_ok
       THEN /\ LogCreate("update_artworks")
            /\ upd' = [upd EXCEPT !.phase = "loop", !.log = Len(logs) + 1,
                                  !.idx = 1, !.updated_count = 0,
                                  !.data_calls = 0, !.paced = TRUE,
                                  !.unpaced = FALSE]
       ELSE /\ LogCreateFailed("update_artworks")
            /\ UNCHANGED upd
  /\ UNCHANGED limiter
  /\ UpdateFrame

\* One iteration of the for loop: get_illust_detail, then limiter.wait(),
\* then the update of the row; an exception of the call skips the rest.
UpdateItem ==
  /\ upd.phase = "loop"
  /\ upd.idx <= Len(upd.rows)
  /\ \E detail_ok \in Outcomes, new_bookmarks \in Bookmarks :
       LET called == [upd EXCEPT !.data_calls = @ + 1,
                                 !.unpaced = @ \/ ~upd.paced,
                                 !.idx = @ + 1]
           changed == new_bookmarks # upd.rows[upd.idx][2]
       IN  IF detail_ok
           THEN /\ wait_call
                /\ upd' = [called EXCEPT
                             !.paced = TRUE,
                             !.rows[upd.idx] = <<upd.rows[upd.idx][1],
                                                 new_bookmarks>>,
                             !.updated_count = IF changed THEN @ + 1 ELSE @]
           ELSE /\ UNCHANGED limiter
                /\ upd' = [called EXCEPT !.paced = FALSE]
  /\ UNCHANGED <<logs, finals, calls>>
  /\ UpdateFrame

\* After the loop: update_success with the number of rows changed.
UpdateFinish ==
  /\ upd.phase = "loop"
  /\ upd.idx > Len(upd.rows)
  /\ LogSuccess(upd.log, upd.updated_count)
  /\ upd' = [upd EXCEPT !.phase = "idle"]
  /\ UNCHANGED limiter
  /\ UpdateFrame

InitUpdate ==
  /\ InitAux2
  /\ InitTables
  /\ InitDispatch
  /\ token = NoToken
  /\ limiter = NoLimiter
  /\ sched = NoScheduler
  /\ cache = NoCache
  /\ ftab = NoFollowTable
  /\ feed = << >>
  /\ following = << >>
  /\ faulty = TRUE
  /\ \E rows \in DueRows : upd = [NoUpdate EXCEPT !.rows = rows]

NextUpdate ==
  \/ UpdateStart
  \/ UpdateItem
  \/ UpdateFinish

UpdateSpec == InitUpdate /\ [][NextUpdate]_vars

\* ------------------------------------------------------------ TaskScheduler
\* Writes to scheduler_configs in one run of the model.
MaxWrites == 3

\* db.session.query(SchedulerConfig).all(): the rows in primary-key order.
SchedOrder == <<"ranking_works", "follow_new_follow", "follow_new_works",
                "update_artworks", "clean_up_logs", "cleanup_logs">>

\* The job types _add_job has a job function for.
has_job_func(collect_type) == collect_type \in JobTypes

\* What a step on the scheduler yields: the jobs and whether it raised.
Ok(jobs) == [jobs |-> jobs, raised |-> FALSE]

Raised(jobs) == [jobs |-> jobs, raised |-> TRUE]

\* _add_job: unknown types are skipped, CronTrigger.from_crontab may raise,
\* scheduler.add_job raises ConflictingIdError for an id already scheduled.
_add_job(jobs, job_id, config) ==
  IF ~has_job_func(job_id) THEN Ok(jobs)
  ELSE IF config.crontab_expression = BadCron THEN Raised(jobs)
  ELSE IF jobs[job_id] # NoJob THEN Raised(jobs)
  ELSE Ok([jobs EXCEPT ![job_id] = config.crontab_expression])

\* Variant: a deactivated config leaves its job scheduled.
_update_job_Mut(jobs, job_id, config) ==
  IF ~config.is_active THEN Ok(jobs)
  ELSE IF config.crontab_expression = BadCron THEN Raised(jobs)
  ELSE IF jobs[job_id] = NoJob THEN Raised(jobs)
  ELSE Ok([jobs EXCEPT ![job_id] = config.crontab_expression])

\* _update_job: remove_job for an inactive config, reschedule_job otherwise;
\* both raise JobLookupError for an id that is not scheduled.
_update_job(jobs, job_id, config) ==
  IF ~config.is_active
  THEN IF jobs[job_id] = NoJob THEN Raised(jobs)
       ELSE Ok([jobs EXCEPT ![job_id] = NoJob])
  ELSE IF config.crontab_expression = BadCron THEN Raised(jobs)
  ELSE IF jobs[job_id] = NoJob THEN Raised(jobs)
  ELSE Ok([jobs EXCEPT ![job_id] = config.crontab_expression])

\* The first loop of refresh_jobs, from the k-th config on; snapshot is the
\* list get_jobs() returned before the loop.
RECURSIVE refresh_configs(_, _, _, _)
refresh_configs(jobs, snapshot, rows, k) ==
  IF k > Len(SchedOrder) THEN Ok(jobs)
  ELSE LET job_id == SchedOrder[k]
           config == rows[job_id]
           step == IF ~config.exists THEN Ok(jobs)
                   ELSE IF snapshot[job_id] # NoJob
                        THEN _update_job(jobs, job_id, config)
                        ELSE IF config.is_active
                             THEN _add_job(jobs, job_id, config)
                             ELSE Ok(jobs)
       IN  IF step.raised THEN step
           ELSE refresh_configs(step.jobs, snapshot, rows, k + 1)

\* The second loop of refresh_jobs: jobs without a config row are removed.
remove_orphans(jobs, rows) ==
  [t \in SchedTypes |-> IF rows[t].exists THEN jobs[t] ELSE NoJob]

\* The loop of _setup_jobs, from the k-th config on.
RECURSIVE setup_configs(_, _, _)
setup_configs(jobs, rows, k) ==
  IF k > Len(SchedOrder) THEN Ok(jobs)
  ELSE LET job_id == SchedOrder[k]
           config == rows[job_id]
           step == IF config.exists /\ config.is_active
                   THEN _add_job(jobs, job_id, config)
                   ELSE Ok(jobs)
       IN  IF step.raised THEN step
           ELSE setup_configs(step.jobs, rows, k + 1)

SchedFrame ==
  UNCHANGED <<store, feed, following, faulty, token, limiter, pc, rank, sync,
              bf, fnw, dispatch, upd, cache, ftab, aux2>>

\* TaskScheduler.start(): _setup_jobs, then scheduler.start().  An exception
\* of _setup_jobs ends the process that called start().
start ==
  /\ ~sched.started
  /\ sched.outcome = "none"
  /\ LET done == setup_configs(sched.jobs, sched.rows, 1)
     IN  sched' = [sched EXCEPT
                     !.jobs = done.jobs,
                     !.started = ~done.raised,
                     !.outcome = IF done.raised THEN "died" ELSE "started",
                     !.fresh = FALSE]
  /\ SchedFrame

\* POST /config/scheduler: update_crontab creates or updates the row of a
\* job type; the legacy endpoint also takes 'cleanup_logs'.
update_scheduler_config ==
  /\ sched.outcome # "died"
  /\ sched.writes < MaxWrites
  /\ \E job_type \in SchedTypes, is_active \in BOOLEAN,
        crontab_expression \in CronPeriods \cup {BadCron} :
       sched' = [sched EXCEPT
                   !.rows[job_type] =
                      [exists |-> TRUE, is_active |-> is_active,
                       crontab_expression |-> crontab_expression],
                   !.writes = @ + 1,
                   !.fresh = FALSE]
  /\ SchedFrame

\* TaskScheduler.refresh_jobs, called by POST /scheduler/refresh.
refresh_jobs ==
  /\ sched.outcome # "died"
  /\ LET done == refresh_configs(sched.jobs, sched.jobs, sched.rows, 1)
     IN  sched' = [sched EXCEPT
                     !.before = sched.jobs,
                     !.started_before = sched.started,
                     !.jobs = IF done.raised THEN done.jobs
                              ELSE remove_orphans(done.jobs, sched.rows),
                     !.outcome = IF done.raised THEN "raised"
                                 ELSE "returned",
                     !.fresh = ~done.raised]
  /\ SchedFrame

\* The rows insert_defualt_scheduler_config leaves, some switched on since.
InitScheduler ==
  /\ InitAux2
  /\ InitTables
  /\ InitDispatch
  /\ token = NoToken
  /\ limiter = NoLimiter
  /\ upd = NoUpdate
  /\ cache = NoCache
  /\ ftab = NoFollowTable
  /\ feed = << >>
  /\ following = << >>
  /\ faulty = TRUE
  /\ \E on \in SUBSET {"ranking_works", "follow_new_works"} :
       sched = [NoScheduler EXCEPT
                  !.rows = [t \in SchedTypes |->
                              IF t \in JobTypes
                              THEN [exists |-> TRUE, is_active |-> t \in on,
                                    crontab_expression |-> 2]
                              ELSE NoRow]]

NextScheduler ==
  \/ start
  \/ update_scheduler_config
  \/ refresh_jobs

SchedulerSpec == InitScheduler /\ [][NextScheduler]_vars

\* ------------------------------------------------------------ ConfigService
\* Calls of set_config in one run of the model.
MaxSets == 2

\* Values written to one integer key.
ConfigValues == {1, 2}

\* _value_to_str for an integer: str(value).
_value_to_str(value) == [text |-> value]

\* _str_to_value for value_type 'integer': int(value_str).
_str_to_value(value_str) == value_str.text

CacheFrame ==
  UNCHANGED <<store, feed, following, faulty, token, limiter, pc, rank, sync,
              bf, fnw, dispatch, upd, sched, ftab, aux2>>

\* A write is under way or has finished: reads that began earlier are no
\* longer reads made after the last finished write.
Overtaken(thr) == [t \in Threads |-> [thr[t] EXCEPT !.fresh = FALSE]]

\* get_all_config up to the database read: a cache hit returns the cached
\* dict; a miss runs the SELECT and converts the values.
GetAllConfig(t) ==
  /\ cache.thr[t].op = "idle"
  /\ IF cache.all # NoValue
     THEN cache' = [cache EXCEPT
                      !.thr[t] = [NoThread EXCEPT
                                    !.op = "idle", !.ret = cache.all,
                                    !.fresh = \A u \in Threads :
                                                cache.thr[u].op # "clear"]]
     ELSE cache' = [cache EXCEPT
                      !.thr[t] = [NoThread EXCEPT
                                    !.op = "store",
                                    !.local = _str_to_value(cache.db),
                                    !.fresh = \A u \in Threads :
                                                cache.thr[u].op # "clear"]]
  /\ CacheFrame

\* get_all_config after the read: self._cache['all'] = result; return.
GetStore(t) ==
  /\ cache.thr[t].op = "store"
  /\ cache' = [cache EXCEPT !.all = cache.thr[t].local,
                            !.thr[t].op = "idle",
                            !.thr[t].ret = cache.thr[t].local]
  /\ CacheFrame

\* set_config up to the commit of config_repo.set_config.
SetConfig(t) ==
  /\ cache.thr[t].op = "idle"
  /\ cache.sets < MaxSets
  /\ \E value \in ConfigValues :
       cache' = [cache EXCEPT
                   !.db = _value_to_str(value),
                   !.sets = @ + 1,
                   !.thr = [Overtaken(cache.thr) EXCEPT
                              ![t] = [NoThread EXCEPT !.op = "clear",
                                                      !.arg = value]]]
  /\ CacheFrame

\* set_config after the commit: _clear_cache(config_key), then return.
ClearCache(t) ==
  /\ cache.thr[t].op = "clear"
  /\ cache' = [cache EXCEPT
                 !.all = NoValue,
                 !.last_set = cache.thr[t].arg,
                 !.thr = [Overtaken(cache.thr) EXCEPT ![t] = NoThread]]
  /\ CacheFrame

InitCache ==
  /\ InitAux2
  /\ InitTables
  /\ InitDispatch
  /\ token = NoToken
  /\ limiter = NoLimiter
  /\ upd = NoUpdate
  /\ sched = NoScheduler
  /\ ftab = NoFollowTable
  /\ feed = << >>
  /\ following = << >>
  /\ faulty = TRUE
  /\ cache = NoCache

NextCache ==
  \/ \E t \in Threads : GetAllConfig(t)
  \/ \E t \in Threads : GetStore(t)
  \/ \E t \in Threads : SetConfig(t)
  \/ \E t \in Threads : ClearCache(t)

CacheSpec == InitCache /\ [][NextCache]_vars

\* ------------------------------------------------------------ follows rows
\* Rows the follows table can hold in the model.
MaxFollowRows == 3

\* The strategies that create a Follow row on first sighting.
FollowCreators == {"sync_follows", "follow_new_works"}

\* FollowRepository.get_by_user_id: scalar_one_or_none over the rows.
get_by_user_id(rows, user_id) ==
  LET found == {k \in 1..Len(rows) : rows[k] = user_id}
  IN  [exists |-> found # {}, raised |-> Cardinality(found) > 1]

\* Variant: the user_id column carries no unique index.
unique_violation_Mut(rows, user_id) == FALSE

\* Follow.user_id is declared unique=True: the INSERT of a second row with
\* the same user_id fails with IntegrityError.
unique_violation(rows, user_id) == \E k \in 1..Len(rows) : rows[k] = user_id

FollowFrame ==
  UNCHANGED <<store, feed, following, faulty, token, limiter, pc, rank, sync,
              bf, fnw, dispatch, upd, sched, cache, aux2>>

\* get_by_user_id in sync_follows (per user_preview) and in
\* _process_user_from_artwork (per feed item).
FollowCheck(t) ==
  /\ ftab.thr[t].phase = "idle"
  /\ \E strategy \in FollowCreators, user_id \in Users :
       LET existing == get_by_user_id(ftab.rows, user_id)
           seen == [NoInsert EXCEPT !.strategy = strategy,
                                    !.user_id = user_id]
       IN  ftab' = [ftab EXCEPT !.thr[t] =
                      IF existing.raised
                      THEN [seen EXCEPT !.outcome = "raised"]
                      ELSE IF existing.exists
                      THEN [seen EXCEPT !.outcome = "existing"]
                      ELSE [seen EXCEPT !.phase = "checked"]]
  /\ FollowFrame

\* _follow_repo.create(user_id=...): the INSERT, caught by the except clause
\* of the caller when it fails.
FollowCreate(t) ==
  /\ ftab.thr[t].phase = "checked"
  /\ Len(ftab.rows) < MaxFollowRows
  /\ LET user_id == ftab.thr[t].user_id
     IN  IF unique_violation(ftab.rows, user_id)
         THEN ftab' = [ftab EXCEPT !.thr[t].phase = "idle",
                                   !.thr[t].outcome = "raised"]
         ELSE ftab' = [ftab EXCEPT !.rows = Append(@, user_id),
                                   !.thr[t].phase = "idle",
                                   !.thr[t].outcome = "created"]
  /\ FollowFrame

InitFollow ==
  /\ InitAux2
  /\ InitTables
  /\ InitDispatch
  /\ token = NoToken
  /\ limiter = NoLimiter
  /\ upd = NoUpdate
  /\ sched = NoScheduler
  /\ cache = NoCache
  /\ feed = << >>
  /\ following = << >>
  /\ faulty = TRUE
  /\ ftab = NoFollowTable

NextFollow ==
  \/ \E t \in Threads : FollowCheck(t)
  \/ \E t \in Threads : FollowCreate(t)

FollowSpec == InitFollow /\ [][NextFollow]_vars

\* ------------------------------------------------- parsing a fetched page
\* Items of one fetched page.
MaxPage == 3

\* What the remote may send for an item: a well-formed one, one whose
\* create_date strptime rejects, one without the create_date attribute, and
\* one whose other fields make _parse_artwork raise.
ItemKinds == {"good", "bad_date", "no_date", "bad_field"}
ParseStrategies == {"collect_rank", "collect_single_user_artworks",
                    "collect_follow_new_works"}

\* _parse_create_date: strptime raises ValueError on a malformed string.
_parse_create_date_raises(kind) == kind = "bad_date"

\* _parse_artwork: it parses create_date itself when the attribute is there,
\* and reads the other fields.
_parse_artwork_raises(kind) == kind \in {"bad_date", "bad_field"}

\* One iteration of the for loop over the items of a page.  collect_rank and
\* _process_follow_works run the whole iteration inside a per-item try;
\* collect_single_user_artworks parses the date before its per-item try,
\* under the try of the page only.
item_outcome(strategy, kind) ==
  IF strategy = "collect_single_user_artworks"
     /\ kind # "no_date" /\ _parse_create_date_raises(kind)
  THEN "page_aborted"
  ELSE IF _parse_artwork_raises(kind) THEN "skipped"
  ELSE "appended"

ParseFrame ==
  UNCHANGED <<store, feed, following, faulty, token, limiter, pc, rank, sync,
              bf, fnw, dispatch, upd, sched, cache, ftab, ref, leg>>

\* The loop body for the item at idx.
ParseItem ==
  /\ prs.phase = "loop"
  /\ prs.idx <= Len(prs.items)
  /\ LET outcome == item_outcome(prs.strategy, prs.items[prs.idx])
     IN  prs' = IF outcome = "page_aborted"
                THEN [prs EXCEPT !.aborted = TRUE, !.phase = "done"]
                ELSE [prs EXCEPT
                        !.idx = @ + 1,
                        !.processed = IF outcome = "appended"
                                      THEN @ \cup {prs.idx} ELSE @]
  /\ ParseFrame

\* The for loop has run over every item.
ParseEnd ==
  /\ prs.phase = "loop"
  /\ prs.idx > Len(prs.items)
  /\ prs' = [prs EXCEPT !.phase = "done"]
  /\ ParseFrame

InitParse ==
  /\ InitTables
  /\ InitDispatch
  /\ token = NoToken
  /\ limiter = NoLimiter
  /\ upd = NoUpdate
  /\ sched = NoScheduler
  /\ cache = NoCache
  /\ ftab = NoFollowTable
  /\ feed = << >>
  /\ following = << >>
  /\ faulty = TRUE
  /\ ref = NoRefresh
  /\ leg = NoLegacy
  /\ \E strategy \in ParseStrategies, items \in SeqsUpTo(ItemKinds, MaxPage) :
       prs = [NoParse EXCEPT !.strategy = strategy, !.items = items,
                             !.idx = 1, !.phase = "loop"]

NextParse ==
  \/ ParseItem
  \/ ParseEnd

ParseSpec == InitParse /\ [][NextParse]_vars

\* ------------------------------------- update_artworks over the stored rows
\* update_max_per_run, scaled.
RefreshLimit == 2

\* last_updated_at: a row starts with its post date (_parse_artwork); a
\* refresh writes get_utc_now(), which is today during the run and an
\* earlier day afterwards.
PostDates == {1, 2}
Stamp == [earlier |-> 3, today |-> 4]

\* tags as stored and as the remote reports them.
TagSets == {0, 1}

\* The works in the table: one with a single page, one with two pages.
RefreshItems == {2, 3}

\* The rows _parse_artwork made for a work, as batch_create stored them.
StoredPages(item, total_bookmarks, post_date) ==
  [k \in 1..Catalog[item].pages |->
     [illust_id |-> item, page_index |-> k - 1,
      total_bookmarks |-> total_bookmarks, tags |-> 0,
      last_updated_at |-> post_date, is_valid |-> TRUE]]

RefreshTables ==
  LET pages(i, b, d) == StoredPages(i, b[i], d[i])
  IN  UNION {{pages(2, b, d), pages(3, b, d),
              pages(2, b, d) \o pages(3, b, d),
              pages(3, b, d) \o pages(2, b, d)} :
             b \in [RefreshItems -> Bookmarks],
             d \in [RefreshItems -> PostDates]}

\* The WHERE clause of get_artworks_for_update; every post date of the
\* table lies inside update_interval_days.
DueForUpdate(rows) ==
  {k \in 1..Len(rows) :
     rows[k].is_valid /\ rows[k].last_updated_at < Stamp.today}

\* get_artworks_for_update: ORDER BY last_updated_at ASC LIMIT per_page.
\* The order among rows of equal last_updated_at is the database's choice.
get_artworks_for_update(rows, per_page) ==
  {sel \in SeqsUpTo(DueForUpdate(rows), per_page) :
     /\ NoDup(sel)
     /\ Len(sel) = Min(per_page, Cardinality(DueForUpdate(rows)))
     /\ \A a, b \in 1..Len(sel) :
          a < b => rows[sel[a]].last_updated_at <= rows[sel[b]].last_updated_at
     /\ \A k \in DueForUpdate(rows) :
          (\A a \in 1..Len(sel) : sel[a] # k) =>
             \A a \in 1..Len(sel) :
               rows[sel[a]].last_updated_at <= rows[k].last_updated_at}

\* BaseRepository.update(artwork.id, total_bookmarks, total_view,
\* last_updated_at): the row with that id and no other.
update_row(rows, id, total_bookmarks) ==
  [rows EXCEPT ![id] = [@ EXCEPT !.total_bookmarks = total_bookmarks,
                                 !.last_updated_at = Stamp.today]]

RefreshFrame ==
  UNCHANGED <<store, feed, following, faulty, token, limiter, pc, rank, sync,
              bf, fnw, dispatch, upd, sched, cache, ftab, prs, leg>>

\* The start of a run: the selection.  The log and the pacing of the same
\* run are followed in UpdateStart and UpdateItem.
RefreshStart ==
  /\ ref.phase = "idle"
  /\ ~ref.ran_today
  /\ \E sel \in get_artworks_for_update(ref.rows, RefreshLimit) :
       ref' = [ref EXCEPT !.phase = "loop", !.ran_today = TRUE,
                          !.selected = sel, !.idx = 1, !.run_calls = << >>]
  /\ RefreshFrame

\* One iteration of the for loop over the selected rows: the detail call,
\* and the write when the counts differ from the row's.
RefreshItem ==
  /\ ref.phase = "loop"
  /\ ref.idx <= Len(ref.selected)
  /\ \E detail_ok \in BOOLEAN, new_bookmarks \in Bookmarks,
        new_tags \in TagSets :
       LET id == ref.selected[ref.idx]
           artwork == ref.rows[id]
           called == [ref EXCEPT
                        !.idx = @ + 1,
                        !.run_calls = Append(@, artwork.illust_id),
                        !.touched = @ \cup {id}]
       IN  IF ~detail_ok
           THEN ref' = called
           ELSE ref' = [called EXCEPT
                          !.detail = [illust_id |-> artwork.illust_id,
                                      total_bookmarks |-> new_bookmarks,
                                      tags |-> new_tags],
                          !.rows = IF new_bookmarks # artwork.total_bookmarks
                                   THEN update_row(@, id, new_bookmarks)
                                   ELSE @]
  /\ RefreshFrame

\* The loop is over: the run returns.
RefreshFinish ==
  /\ ref.phase = "loop"
  /\ ref.idx > Len(ref.selected)
  /\ ref' = [ref EXCEPT !.phase = "idle", !.selected = << >>, !.idx = 0,
                        !.run_calls = << >>, !.detail = NoRefresh.detail]
  /\ RefreshFrame

\* Midnight UTC between two scheduled runs: what was written today is now
\* older than update_date.
NewDay ==
  /\ ref.phase = "idle"
  /\ ref.ran_today
  /\ ref' = [ref EXCEPT
               !.ran_today = FALSE,
               !.rows = [k \in 1..Len(ref.rows) |->
                           IF ref.rows[k].last_updated_at = Stamp.today
                           THEN [ref.rows[k] EXCEPT
                                   !.last_updated_at = Stamp.earlier]
                           ELSE ref.rows[k]]]
  /\ RefreshFrame

InitRefresh ==
  /\ InitTables
  /\ InitDispatch
  /\ token = NoToken
  /\ limiter = NoLimiter
  /\ upd = NoUpdate
  /\ sched = NoScheduler
  /\ cache = NoCache
  /\ ftab = NoFollowTable
  /\ prs = NoParse
  /\ leg = NoLegacy
  /\ feed = << >>
  /\ following = << >>
  /\ faulty = TRUE
  /\ \E rows \in RefreshTables : ref = [NoRefresh EXCEPT !.rows = rows]

NextRefresh ==
  \/ RefreshStart
  \/ RefreshItem
  \/ RefreshFinish
  \/ NewDay

\* The scheduler starts the task once a day, and a run that has started
\* goes on to its end.
RefreshSpec == InitRefresh /\ [][NextRefresh]_vars /\ WF_vars(NextRefresh)

\* ------------------------------------ ArtworkUpdater._update_single_artwork
\* Stored pages of the work handed to _update_single_artwork.
MaxPages == 3

\* invalid_artwork_action in system_config; 'mark' is the default.
InvalidActions == {"mark", "keep", "delete"}

\* What illust_detail does: a detail with a usable image URL, a detail
\* without illust, a detail without image_urls.large, an exception whose
\* text has '404' or 'not found', and any other exception (throttling, a
\* network error, a failed authentication in api()).
DetailOutcomes == {"ok", "no_illust", "no_url", "raise_404", "raise_other"}

\* The rows of the work: page 0 was selected, so it is valid; a later page
\* may have been flagged before.
LegacyPages ==
  UNION {{[k \in 1..n |->
             [page_index |-> k - 1, is_valid |-> k = 1 \/ k \in ok,
              error_message |-> IF k = 1 \/ k \in ok THEN "none"
                                ELSE "No valid image URL",
              stored |-> TRUE]] : ok \in SUBSET (2..n)} : n \in 1..MaxPages}

\* Orders in which a query without ORDER BY may return the pages.
PageOrders(n) == {o \in [1..n -> 1..n] : \A a, b \in 1..n : o[a] = o[b] => a = b}

\* The message _update_single_artwork marks with, per outcome.
invalid_message(outcome) ==
  CASE outcome \in {"no_illust", "raise_404"} -> "Artwork not found"
    [] outcome = "no_url" -> "No valid image URL"
    [] outcome = "raise_other" -> "Update error"
    [] OTHER -> "none"

\* _mark_invalid on one row: delete it, or flag it with the reason.
_mark_invalid(page, action, message) ==
  IF action = "delete" THEN [page EXCEPT !.stored = FALSE]
  ELSE [page EXCEPT !.is_valid = FALSE, !.error_message = message]

LegacyFrame ==
  UNCHANGED <<store, feed, following, faulty, token, limiter, pc, rank, sync,
              bf, fnw, dispatch, upd, sched, cache, ftab, prs, ref>>

\* illust_detail and rate_limiter.wait(); then the query for all pages of
\* the work, in _update_single_artwork or in _mark_invalid_all_pages.
LegacyDetail ==
  /\ leg.phase = "idle"
  /\ \E outcome \in DetailOutcomes, order \in PageOrders(Len(leg.pages)) :
       leg' = [leg EXCEPT
                 !.outcome = outcome, !.order = order, !.idx = 1,
                 !.message = invalid_message(outcome),
                 !.phase = IF outcome \in {"ok", "no_url"}
                           THEN "update_loop" ELSE "mark_all"]
  /\ LegacyFrame

\* One iteration of `for page_artwork in all_pages`: the metadata, then the
\* URL; without a usable URL _mark_invalid(page_artwork) and return False.
LegacyUpdatePage ==
  /\ leg.phase = "update_loop"
  /\ leg.idx <= Len(leg.order)
  /\ LET k == leg.order[leg.idx]
     IN  IF leg.outcome = "ok"
         THEN leg' = [leg EXCEPT !.pages[k].is_valid = TRUE,
                                 !.pages[k].error_message = "none",
                                 !.idx = @ + 1]
         ELSE leg' = [leg EXCEPT
                        !.pages[k] = _mark_invalid(@, leg.action, leg.message),
                        !.phase = "done"]
  /\ LegacyFrame

\* One iteration of the loop of _mark_invalid_all_pages.
LegacyMarkPage ==
  /\ leg.phase = "mark_all"
  /\ leg.idx <= Len(leg.order)
  /\ leg' = [leg EXCEPT
               !.pages[leg.order[leg.idx]] =
                  _mark_invalid(@, leg.action, leg.message),
               !.idx = @ + 1]
  /\ LegacyFrame

\* The loop is over: _update_single_artwork returns.
LegacyReturn ==
  /\ leg.phase \in {"update_loop", "mark_all"}
  /\ leg.idx > Len(leg.order)
  /\ leg' = [leg EXCEPT !.phase = "done"]
  /\ LegacyFrame

InitLegacy ==
  /\ InitTables
  /\ InitDispatch
  /\ token = NoToken
  /\ limiter = NoLimiter
  /\ upd = NoUpdate
  /\ sched = NoScheduler
  /\ cache = NoCache
  /\ ftab = NoFollowTable
  /\ prs = NoParse
  /\ ref = NoRefresh
  /\ feed = << >>
  /\ following = << >>
  /\ faulty = TRUE
  /\ \E pages \in LegacyPages, action \in InvalidActions :
       leg = [NoLegacy EXCEPT !.pages = pages, !.before = pages,
                              !.action = action]

NextLegacy ==
  \/ LegacyDetail
  \/ LegacyUpdatePage
  \/ LegacyMarkPage
  \/ LegacyReturn

LegacySpec == InitLegacy /\ [][NextLegacy]_vars

\* The engine when every remote call and token refresh returns normally;
\* the service thread keeps running whatever it has started.
InitFair ==
  /\ InitStore
  /\ InitDispatch
  /\ feed \in FeedSet
  /\ following \in FollowingSet
  /\ faulty = FALSE

FairSpec == InitFair /\ [][Next]_vars /\ WF_vars(Next)

\* A store that already holds the first page of one feed work under a
\* provenance no strategy of the service writes: collect_type is a free
\* String(50) column, and _should_process_artwork names 'update_artworks'.
OtherProvenance == "update_artworks"

InitSeeded ==
  /\ token = NoToken
  /\ limiter = NoLimiter
  /\ InitAux
  /\ follows = [u \in Users |-> NoFollow]
  /\ logs = << >>
  /\ finals = << >>
  /\ calls = << >>
  /\ pc = "idle"
  /\ rank = RankIdle
  /\ sync = SyncIdle
  /\ bf = BfIdle
  /\ fnw = FnwIdle
  /\ InitDispatch
  /\ feed \in FeedSet
  /\ following \in FollowingSet
  /\ faulty = FALSE
  /\ \E item \in FeedIllusts :
       artworks = << [illust_id |-> item, page_index |-> 0,
                      collect_type |-> OtherProvenance] >>

SeededSpec == InitSeeded /\ [][Next]_vars

\* ------------------------------------------------------------------ claims
\* C1: every (illust_id, page_index) pair is held by at most one stored
\* Artwork row, in every reachable state.
C1_Uniqueness ==
  \A a, b \in 1..Len(artworks) :
    (artworks[a].illust_id = artworks[b].illust_id
       /\ artworks[a].page_index = artworks[b].page_index) => a = b

\* C2: no step of any strategy lowers a creator's stored last_artwork_date.
C2_LastArtworkDateMonotone ==
  [][\A u \in Users :
       follows'[u].last_artwork_date >= follows[u].last_artwork_date]_vars

SyncPcs == {"sync_loop", "sync_item", "sync_page_end", "sync_end"}

C4_EarlyStop ==
  [][(pc \in SyncPcs /\ sync.stopped) =>
       (follows' = follows /\ sync'.fetches = sync.fetches)]_vars

C4_Witness ==
  /\ pc = "idle"
  /\ sync.stopped
  /\ sync.stop_pos < Len(following)

\* C5: the dispatcher does not invoke a job twice within one cron period:
\* after an invocation at t1 the next one is at or after the first cron
\* boundary following t1.
C5_IdempotentDispatch ==
  \A j \in JobTypes : \A t1, t2 \in invoked[j] :
    t1 < t2 => cron_get_next(configs[j].crontab_expression, t1) <= t2

\* C6: every strategy invocation returns when the remote is finite and
\* every remote call returns.
C6_EveryRunTerminates == (pc # "idle") ~> (pc = "idle")

\* C7: after a fetched page without a next-page token, a run of
\* sync_follows, collect_single_user_artworks or _collect_follow_works
\* fetches no further page.
C7_StopsAtLastPage ==
  ~sync.refetched /\ ~bf.refetched /\ ~fnw.refetched

\* C8: one Follow-New-Works run over a feed of two one-work pages by a
\* followed creator ends with 2 new rows, the newer date on the Follow row
\* and a success log counting 2.
C8_Start(u) ==
  /\ pc = "fnw_loop"
  /\ fnw.encountered = {}
  /\ artworks = << >>
  /\ Len(feed) = 2
  /\ \A k \in 1..2 : Catalog[feed[k]].user = u /\ Catalog[feed[k]].pages = 1
  /\ Catalog[feed[1]].date # Catalog[feed[2]].date
  /\ follows[u].exists
  /\ follows[u].last_artwork_date = NoDate

C8_Done(u) ==
  /\ pc = "idle"
  /\ fnw.log # NoLog
  /\ Len(feed) = 2
  /\ Len(artworks) = 2
  /\ follows[u].last_artwork_date =
       IF Catalog[feed[1]].date > Catalog[feed[2]].date
       THEN Catalog[feed[1]].date ELSE Catalog[feed[2]].date
  /\ logs[fnw.log].status = "success"
  /\ logs[fnw.log].artworks_count = 2

C8_EndToEnd == \A u \in Users : C8_Start(u) ~> C8_Done(u)

\* C9 as stated: a backfill that met no fetch error has collected the
\* creator's earliest work when that work predates now - 2y.
Collected(list) == {list[k].illust_id : k \in 1..Len(list)}

EarliestWork(user_id) ==
  CHOOSE i \in {UserWorks(user_id)[k] : k \in 1..Len(UserWorks(user_id))} :
    \A k \in 1..Len(UserWorks(user_id)) :
      Catalog[i].date <= Catalog[UserWorks(user_id)[k]].date

C9_DownToEarliest ==
  (pc = "bf_end" /\ ~bf.fault
     /\ Catalog[EarliestWork(bf.user)].date < initial_cutoff_date)
  => EarliestWork(bf.user) \in Collected(bf.artworks_list)

\* C9 amended: when the first listed work predates now - 2y, the backfill
\* collects every work listed before the first one that is more than two
\* years older than that first work.
C9_WidenedCutoff ==
  (pc = "bf_end" /\ ~bf.fault /\ bf.first_artwork_date # NoDate
     /\ bf.first_artwork_date < initial_cutoff_date)
  => LET works == UserWorks(bf.user)
     IN  \A k \in 1..Len(works) :
           (\A m \in 1..k : Catalog[works[m]].date
                              >= bf.first_artwork_date - BacktrackYears)
           => works[k] \in Collected(bf.artworks_list)

C9_Witness ==
  /\ pc = "bf_end"
  /\ ~bf.fault
  /\ bf.first_artwork_date < initial_cutoff_date
  /\ Cardinality(Collected(bf.artworks_list)) >= 2
  /\ EarliestWork(bf.user) \notin Collected(bf.artworks_list)

C12_OneExecutionPerType ==
  \A v, w \in Workers :
    (v # w /\ workers[v].phase # "idle" /\ workers[w].phase # "idle")
      => collect_type_of(workers[v].task) # collect_type_of(workers[w].task)

\* C13: with strategy executions saving from several worker threads, each
\* (illust_id, page_index) pair is still held by at most one Artwork row.
C13_NoDuplicateUnderOverlap ==
  \A a, b \in 1..Len(artworks) :
    (a # b) =>
      ~(artworks[a].illust_id = artworks[b].illust_id
          /\ artworks[a].page_index = artworks[b].page_index)

\* Tasks of a job that are queued or being run by a worker.
Unfinished(job, q, ws) ==
  ({q[k] : k \in 1..Len(q)} \cup {ws[w].task : w \in Workers})
    \cap {tasks_of(job)[k] : k \in 1..Len(tasks_of(job))}

C15_LastRunTimeSet ==
  \A j \in JobTypes :
    invoked[j] # {} =>
      /\ configs[j].last_run_time # NoTime
      /\ configs[j].last_run_time \in invoked[j]
      /\ \A t \in invoked[j] : t <= configs[j].last_run_time

\* The first cron boundary after base: the least multiple of the period
\* that is later than base.
FirstBoundaryAfter(period, base) ==
  CHOOSE t \in (base + 1)..(base + period) : t % period = 0

C17_RecoveredByNextRun ==
  (pc = "idle" /\ sync.log # NoLog /\ sync.cut_before /\ ~sync.failed)
    => \A k \in 1..Len(following) : follows[following[k]].exists

\* C18: the token check reuses the stored access token only when
\* now < expiry - 5 minutes; in every other case it refreshes and persists
\* the new tokens and a new expiry before a data call of the strategy.
C18_ReuseOnlyWithMargin ==
  /\ token.reused =>
       /\ token.expiry_at_check # NoExpiry
       /\ token.clock_at_check < token.expiry_at_check - TokenMargin
  /\ (token.data_calls > 0 /\ ~token.reused) =>
       /\ token.saved
       /\ token.expiry = token.clock_at_check + TokenLifetime

C20_ErrorIntervalAfterError ==
  limiter.served # NotReported =>
    /\ limiter.delay >= error_interval(limiter.served).min
    /\ limiter.delay <= error_interval(limiter.served).max

\* C21: between any two consecutive data calls of one run the limiter's
\* wait() is executed, also when the earlier call raised.
C21_AlwaysPaced == ~upd.unpaced

\* C22: when the next page is about to be fetched, the rows collected from
\* the pages before it are in the store.
C22_CommittedPerPage ==
  /\ pc = "bf_loop" =>
       \A k \in 1..Len(bf.artworks_list) :
         RowsFor(artworks, bf.artworks_list[k].illust_id,
                 bf.artworks_list[k].page_index) # {}
  /\ pc = "fnw_loop" =>
       \A k \in 1..Len(fnw.artworks_list) :
         RowsFor(artworks, fnw.artworks_list[k].illust_id,
                 fnw.artworks_list[k].page_index) # {}

\* C23: after refresh_jobs returned, the scheduled jobs are the active
\* config rows of a known job type, each with its current cron expression,
\* and the scheduler was neither started nor stopped by the refresh.
C23_JobsMatchConfigs ==
  (sched.outcome = "returned" /\ sched.fresh) =>
    /\ \A t \in SchedTypes :
         sched.jobs[t] =
           IF sched.rows[t].exists /\ sched.rows[t].is_active
              /\ has_job_func(t)
           THEN sched.rows[t].crontab_expression
           ELSE NoJob
    /\ sched.started = sched.started_before

\* One refresh added a job, removed another and rescheduled a third.
C23_Witness ==
  /\ sched.outcome = "returned"
  /\ sched.fresh
  /\ sched.started
  /\ \E a, b, c \in SchedTypes :
       /\ sched.before[a] = NoJob /\ sched.jobs[a] # NoJob
       /\ sched.before[b] # NoJob /\ sched.jobs[b] = NoJob
       /\ sched.before[c] # NoJob /\ sched.jobs[c] # NoJob
       /\ sched.jobs[c] # sched.before[c]

\* C24: a read that starts after set_config(k, v) has returned, with no
\* other write since, returns v.
C24_NoStaleRead ==
  \A t \in Threads :
    (cache.thr[t].op = "idle" /\ cache.thr[t].fresh
       /\ cache.last_set # NoValue) =>
      cache.thr[t].ret = _str_to_value(_value_to_str(cache.last_set))

\* C25: no interleaving of sync_follows and the follow-new-works sync
\* leaves two Follow rows with the same user_id.
C25_OneFollowRowPerCreator ==
  \A a, b \in 1..Len(ftab.rows) : ftab.rows[a] = ftab.rows[b] => a = b

\* Both strategies found the creator absent; one INSERT went through and
\* the other was refused.
C25_Witness ==
  \E t, u \in Threads :
    /\ ftab.thr[t].outcome = "created"
    /\ ftab.thr[u].outcome = "raised"
    /\ ftab.thr[t].user_id = ftab.thr[u].user_id
    /\ ftab.thr[t].strategy = "sync_follows"
    /\ ftab.thr[u].strategy = "follow_new_works"
    /\ Len(ftab.rows) = 1

\* The stored first page of the feed item the follow-new-works loop is at.
FnwExisting == get_by_illust_id_and_page(artworks, fnw.items[fnw.idx], 0)

\* C26: an item stored under a provenance that is neither follow nor ranking
\* is skipped alone: the loop goes on to the next item, and has_more is
\* left as it was.
C26_SkipContinues ==
  [][(pc = "fnw_item" /\ ~FnwExisting.raised /\ FnwExisting.id # 0
        /\ artworks[FnwExisting.id].collect_type
             \notin (FollowTypes \cup RankingTypes))
       => (pc' = FnwNextItem /\ fnw'.page_has_more = fnw.page_has_more)]_vars

\* C27: a follow-new-works run ends its pagination at an item only when
\* that item's first page was in the store before the run began; rows the
\* run's own nested backfills inserted never stop it at an item it meets
\* for the first time.
C27_StopsOnlyAtPreStored ==
  [][(pc = "fnw_item" /\ fnw.items[fnw.idx] \notin fnw.encountered
        /\ fnw.page_has_more /\ ~fnw'.page_has_more)
       => fnw.items[fnw.idx] \in fnw.pre_stored]_vars

\* The feed item at hand has a stored first page, under a follow provenance.
FnwAtFollowRow ==
  /\ pc = "fnw_item"
  /\ RowsFor(artworks, fnw.items[fnw.idx], 0) # {}
  /\ \A k \in RowsFor(artworks, fnw.items[fnw.idx], 0) :
       artworks[k].collect_type \in FollowTypes

\* C28: at a feed item stored under follow_new_works or
\* follow_user_artworks the run leaves the page at once with has_more
\* cleared, and from there it goes to its end without another fetch.
C28_StopsAtFollowRow ==
  [][/\ FnwAtFollowRow => (pc' = "fnw_page_end" /\ ~fnw'.page_has_more)
     /\ (pc = "fnw_page_end" /\ ~fnw.page_has_more) => pc' = "fnw_end"
     /\ pc = "fnw_end" => pc' = "idle"]_vars

\* C29: an exception of the nested backfill leaves the outer
\* follow-new-works run alive: control returns to the item at hand with the
\* outer log still running, the loop goes on to the next item with has_more
\* untouched, and the run finalizes its log when it ends.
C29_NestedFailureIsolated ==
  [][/\ (bf'.raised /\ ~bf.raised /\ (pc = "fnw_item" \/ bf.caller = "fnw"))
          => (pc' = "fnw_resume" /\ logs'[fnw.log].status = "running")
     /\ (pc = "fnw_resume" /\ bf.raised)
          => /\ pc' = FnwNextItem
             /\ fnw'.idx = fnw.idx + 1
             /\ fnw'.page_has_more = fnw.page_has_more
             /\ logs'[fnw.log].status = "running"
     /\ pc = "fnw_end" => finals'[fnw.log] = 1]_vars

\* The outer run is at a later feed item after a nested backfill of this
\* run, logged after the run's own log, has failed.
C29_Witness ==
  /\ pc = "fnw_item"
  /\ fnw.encountered # {}
  /\ fnw.items[fnw.idx] \notin fnw.encountered
  /\ logs[fnw.log].status = "running"
  /\ \E id \in (fnw.log + 1)..Len(logs) :
       logs[id].log_type = "follow_user_artworks" /\ logs[id].status = "failed"

\* The rows of a gathered list are all in the store.
Persisted(rows, artworks_list) ==
  \A k \in 1..Len(artworks_list) :
    RowsFor(rows, artworks_list[k].illust_id,
            artworks_list[k].page_index) # {}

\* C30: a run whose page fetch raised after at least one page was processed
\* ends with its log at success: the follow-list sync keeps the Follow rows
\* of the earlier pages, and the two artwork strategies store what the
\* earlier pages gathered and log the number of rows they inserted.
C30_FetchFailureKeepsEarlierPages ==
  [][/\ (pc = "sync_end" /\ sync.failed /\ sync.offset > 0)
          => /\ logs'[sync.log].status = "success"
             /\ follows' = follows
             /\ \A k \in 1..Min(sync.offset, Len(following)) :
                  follows[following[k]].exists
     /\ (pc = "bf_end" /\ bf.fault /\ bf.offset > 0)
          => /\ logs'[bf.log].status = "success"
             /\ logs'[bf.log].artworks_count = Len(artworks') - Len(artworks)
             /\ Persisted(artworks', bf.artworks_list)
     /\ (pc = "fnw_end" /\ fnw.failed /\ fnw.encountered # {})
          => /\ logs'[fnw.log].status = "success"
             /\ logs'[fnw.log].artworks_count = Len(artworks') - Len(artworks)
             /\ Persisted(artworks', fnw.artworks_list)]_vars

\* C31: when the loop over a page has ended, every well-formed item of the
\* page has been parsed and appended, whatever malformed items the page
\* held before it.
C31_BadItemSkippedAlone ==
  prs.phase = "done" =>
    \A k \in 1..Len(prs.items) :
      prs.items[k] = "good" => k \in prs.processed

\* C32: when a refresh writes to a row of a work, every stored page row of
\* that work afterwards carries the bookmarks and tags of the detail just
\* fetched and today's last_updated_at.
C32_AllPagesOverwritten ==
  [][\A k \in 1..Len(ref.rows) :
       (ref.phase = "loop" /\ ref'.rows[k] # ref.rows[k]) =>
         \A j \in 1..Len(ref.rows) :
           ref.rows[j].illust_id = ref.rows[k].illust_id =>
             /\ ref'.rows[j].total_bookmarks = ref'.detail.total_bookmarks
             /\ ref'.rows[j].tags = ref'.detail.tags
             /\ ref'.rows[j].last_updated_at = Stamp.today]_vars

\* C33: every valid stored row is, sooner or later, picked by a refresh
\* run and has its detail fetched.
C33_NoRowStarved ==
  \A i \in RefreshItems : \A p \in 0..(Catalog[i].pages - 1) :
    <>(\A k \in 1..Len(ref.rows) :
         (ref.rows[k].illust_id = i /\ ref.rows[k].page_index = p)
           => k \in ref.touched)

\* C36: within one refresh run no illust_id is the subject of two detail
\* calls.
C36_OneCallPerIllust == NoDup(ref.run_calls)

\* C34: after _update_single_artwork returned for a work that is gone or
\* has no usable image URL, every page of the work is deleted under the
\* delete policy and is flagged invalid with a reason under the other two.
C34_AllPagesInvalidated ==
  (leg.phase = "done" /\ leg.outcome \in {"no_illust", "raise_404", "no_url"})
    => \A k \in 1..Len(leg.pages) :
         IF leg.action = "delete"
         THEN ~leg.pages[k].stored
         ELSE /\ leg.pages[k].stored
              /\ ~leg.pages[k].is_valid
              /\ leg.pages[k].error_message # "none"

\* C35: after a detail call that failed for a reason other than a missing
\* work, every page of the work is still stored and as valid as before.
C35_TransientKeepsRows ==
  (leg.phase = "done" /\ leg.outcome = "raise_other")
    => \A k \in 1..Len(leg.pages) :
         /\ leg.pages[k].stored
         /\ leg.pages[k].is_valid = leg.before[k].is_valid

\* C37: a backfill that is about to fetch another page has met no work
\* older than its effective cutoff on the pages fetched so far, and the rows
\* it inserts at its end all belong to works posted at or after that cutoff.
C37_StopsAtCutoff ==
  [][/\ pc' = "bf_loop" =>
          \A k \in 1..Min(bf'.offset, Len(UserWorks(bf'.user))) :
            Catalog[UserWorks(bf'.user)[k]].date >= bf'.actual_cutoff_date
     /\ pc = "bf_end" =>
          \A k \in (Len(artworks) + 1)..Len(artworks') :
            Catalog[artworks'[k].illust_id].date >= bf.actual_cutoff_date]_vars

\* A backfill has ended at a work older than its cutoff with rows gathered
\* and with a further page of the creator's listing left unfetched.
C37_Witness ==
  /\ pc = "bf_end"
  /\ ~bf.fault
  /\ ~bf.has_more
  /\ bf.artworks_list # << >>
  /\ bf.offset > 0
  /\ bf.offset < Len(UserWorks(bf.user))
  /\ \E k \in 1..bf.offset :
       Catalog[UserWorks(bf.user)[k]].date < bf.actual_cutoff_date

\* C38: a save that raises stores none of its rows, sets the log of the run
\* to failed and raises to the caller; a ranking run ends with success only
\* when the save of some listed page returned, with exactly its rows added.
C38_FailingSaveFailsRun ==
  [][/\ (pc = "bf_end" /\ batch_create(artworks, bf.artworks_list).raised)
          => /\ artworks' = artworks
             /\ logs'[bf.log].status = "failed"
             /\ calls'[bf.log] = [exc |-> TRUE, result |-> "raised"]
     /\ (pc = "fnw_end" /\ batch_create(artworks, fnw.artworks_list).raised)
          => /\ artworks' = artworks
             /\ logs'[fnw.log].status = "failed"
             /\ calls'[fnw.log] = [exc |-> TRUE, result |-> "raised"]
     /\ pc = "rank"
          => IF logs'[rank.log].status = "success"
             THEN \E illusts \in RankLists :
                    LET saved == batch_create(
                                   artworks, ParseAll(illusts, "ranking_works"))
                    IN  ~saved.raised /\ artworks' = saved.rows
             ELSE /\ artworks' = artworks
                  /\ logs'[rank.log].status = "failed"
                  /\ calls'[rank.log] = [exc |-> TRUE, result |-> "raised"]]_vars

\* A backfill called on its own has ended in a save that raised: its log
\* is failed and the call raised.
C38_Witness ==
  /\ pc = "idle"
  /\ bf.raised
  /\ \E id \in 1..Len(logs) :
       /\ logs[id].log_type = "follow_user_artworks"
       /\ logs[id].status = "failed"
       /\ calls[id].result = "raised"
  /\ \E i \in Illusts : Cardinality(RowsFor(artworks, i, 0)) > 1

\* C39: after a sync has reclassified a work that ranking collect had stored,
\* every stored page row of that work carries follow_new_works.
C39_AllPagesReclassified ==
  (pc = "idle" /\ fnw.log # NoLog) =>
    \A x \in fnw.pre_ranking \cap fnw.encountered :
      \A k \in 1..Len(artworks) :
        artworks[k].illust_id = x
          => artworks[k].collect_type = "follow_new_works"

\* C40: no step removes a stored row or changes its key; the provenance of a
\* stored row changes only in the sync's per-item check, from a ranking
\* provenance to follow_new_works; the steps that save through batch_create
\* leave every row that was already stored as it was.
C40_ProvenanceOnlyRankingToFollow ==
  [][/\ Len(artworks') >= Len(artworks)
     /\ \A k \in 1..Len(artworks) :
          /\ artworks'[k].illust_id = artworks[k].illust_id
          /\ artworks'[k].page_index = artworks[k].page_index
          /\ artworks'[k].collect_type # artworks[k].collect_type
               => /\ pc = "fnw_item"
                  /\ artworks[k].collect_type \in RankingTypes
                  /\ artworks'[k].collect_type = "follow_new_works"
     /\ pc \in {"rank", "bf_end", "fnw_end"}
          => SubSeq(artworks', 1, Len(artworks)) = artworks]_vars

\* A sync in progress has reclassified the first page of a work that
\* ranking collect had stored, next to a row that keeps a ranking
\* provenance.
C40_Witness ==
  /\ pc # "idle"
  /\ fnw.log # NoLog
  /\ \E k \in 1..Len(artworks) :
       /\ artworks[k].illust_id \in fnw.pre_ranking \cap fnw.encountered
       /\ artworks[k].page_index = 0
       /\ artworks[k].collect_type = "follow_new_works"
  /\ \E j \in 1..Len(artworks) : artworks[j].collect_type \in RankingTypes

====
